---------------------------- MODULE Spec2Model ----------------------------
(***************************************************************************)
(* A model of the TRAPI query-graph handler: the edge cache                *)
(* (src/src/cache_handler.js), the cache key of an execution edge          *)
(* (src/src/query_execution_edge.js), the execution loop of query()       *)
(* and setQueryGraph (src/src/index.js), the results assembler             *)
(* (src/src/query_results.js) and the attributes of knowledge-graph edges  *)
(* (src/src/graph/knowledge_graph.js).                                     *)
(*                                                                         *)
(* Strings are sequences of characters, so that concatenation, join and    *)
(* split are computed as the code computes them.  A digest produced by     *)
(* helper._generateHash is a record [digest |-> s]: a block of fixed width *)
(* that is different for different s.                                      *)
(***************************************************************************)
EXTENDS Integers, Sequences, FiniteSets, TLC

Undefined == "undefined"
Null == "null"

(***************************************************************************)
(* Bounds of the model.                                                    *)
(***************************************************************************)
\* the most operations a MetaKG catalog holds
MaxMetaOps == 2
\* the width, in characters, of a SmartAPI identifier (all of one width)
IdWidth == 2

(***************************************************************************)
(* Strings.                                                                *)
(***************************************************************************)
RECURSIVE Join(_, _)
\* Array.prototype.join: the strings of arr with sep between neighbours
Join(arr, sep) ==
  IF Len(arr) = 0 THEN <<>>
  ELSE IF Len(arr) = 1 THEN arr[1]
  ELSE arr[1] \o sep \o Join(Tail(arr), sep)

\* an array used as an operand of +: Array.prototype.toString, join(',')
ArrayToString(arr) == Join(arr, <<",">>)

Digit(d) == CASE d = 0 -> "0" [] d = 1 -> "1" [] d = 2 -> "2" [] d = 3 -> "3"
              [] d = 4 -> "4" [] d = 5 -> "5" [] d = 6 -> "6" [] d = 7 -> "7"
              [] d = 8 -> "8" [] d = 9 -> "9"

RECURSIVE NumberToString(_)
\* String(n) of a non-negative integer: its decimal digits
NumberToString(n) ==
  IF n < 10 THEN <<Digit(n)>>
  ELSE NumberToString(n \div 10) \o <<Digit(n % 10)>>

RECURSIVE Unique(_)
\* Array.from(new Set(arr)): the first occurrence of each element, in order
Unique(arr) ==
  IF Len(arr) = 0 THEN <<>>
  ELSE LET front == Unique(SubSeq(arr, 1, Len(arr) - 1))
           last == arr[Len(arr)]
       IN IF \E i \in 1..Len(front) : front[i] = last THEN front
          ELSE Append(front, last)

SeqsUpTo(S, n) == UNION {[1..k -> S] : k \in 0..n}


(***************************************************************************)
(* Query nodes, query edges and the MetaKG catalog.                        *)
(*   node    [id, categories, curie]; curie is [defined, ids]: getCurie()  *)
(*           gives undefined or the list of ids                            *)
(*   edge    [id, subject, object, predicate, reverse]: an execution edge  *)
(*           and the QEdge it wraps; predicate is [defined, list]          *)
(*   metaKG  [defined, ops]: ops[i] is op.association.smartapi.id          *)
(***************************************************************************)
Gene == <<"G">>
Disease == <<"D">>
Treats == <<"t">>
CurieX == <<"x">>
CurieY == <<"y">>

NoCurie == [defined |-> FALSE, ids |-> <<>>]
Curies(ids) == [defined |-> TRUE, ids |-> ids]
NoPredicate == [defined |-> FALSE, list |-> <<>>]
Predicates(list) == [defined |-> TRUE, list |-> list]

QNode(id, categories, curie) == [id |-> id, categories |-> categories, curie |-> curie]

QXEdge(id, subject, object, predicate, reverse) ==
  [id |-> id, subject |-> subject, object |-> object, predicate |-> predicate,
   reverse |-> reverse]

\* the SmartAPI identifiers of the model: IdWidth characters each, digits included
ApiIDs ==
  { [i \in 1..IdWidth |-> "1"], [i \in 1..IdWidth |-> "a"],
    [i \in 1..IdWidth |-> IF i = 1 THEN "1" ELSE "a"] }

NoMetaKG == [defined |-> FALSE, ops |-> <<>>]
MetaKG(ops) == [defined |-> TRUE, ops |-> ops]
Catalogs == {MetaKG(ops) : ops \in SeqsUpTo(ApiIDs, MaxMetaOps)} \cup {NoMetaKG}

(***************************************************************************)
(* The cache key.                                                          *)
(***************************************************************************)
\* helper._generateHash: a digest, one for each string hashed
_generateHash(s) == [digest |-> s]

\* QNode.getCategories: the node's list of categories, in the order it holds them
getCategories(node) == node.categories

\* QNode.getCurie
getCurie(node) == node.curie

\* getInputCurie: the subject's curies, or else the object's; [undefined] joins to ""
getInputCurie(e) ==
  IF getCurie(e.subject).defined THEN getCurie(e.subject).ids
  ELSE IF getCurie(e.object).defined THEN getCurie(e.object).ids
  ELSE << <<>> >>

\* the predicate as an operand of +
PredicateToString(p) == IF p.defined THEN ArrayToString(p.list) ELSE <<"undefined">>

\* toBeHashed of getHashedEdgeRepresentation; this.subject, this.predicate and
\* this.object are the subject node, the predicate and the object node of the
\* edge (the constructor of QExeEdge itself does not set them)
toBeHashed(e) ==
  ArrayToString(getCategories(e.subject)) \o PredicateToString(e.predicate)
    \o ArrayToString(getCategories(e.object)) \o ArrayToString(getInputCurie(e))

getHashedEdgeRepresentation(e) == _generateHash(toBeHashed(e))

\* allIDs of _hashEdgeByKG
allIDs(metaKG) == Join(Unique(metaKG.ops), <<>>)

\* the string with the API identifiers left out: qXEdgeHash + len
KGStringWithoutIDs(qXEdgeHash, metaKG) ==
  <<qXEdgeHash>> \o NumberToString(Len(metaKG.ops))

\* the string _hashEdgeByKG hashes: qXEdgeHash + len + allIDs
KGString(qXEdgeHash, metaKG) ==
  <<qXEdgeHash>> \o NumberToString(Len(metaKG.ops)) \o allIDs(metaKG)

_hashEdgeByKG(qXEdgeHash, metaKG) ==
  IF ~metaKG.defined THEN qXEdgeHash
  ELSE _generateHash(KGString(qXEdgeHash, metaKG))

\* the cache key of execution edge e under catalog metaKG
CacheKey(e, metaKG) == _hashEdgeByKG(getHashedEdgeRepresentation(e), metaKG)


(***************************************************************************)
(* Records and their encoding in the cache.                                *)
(*   record  [id, qEdge, dunder]: id identifies the record's content,      *)
(*           qEdge is $edge_metadata.trapi_qEdge_obj (the id of an         *)
(*           execution edge, or Undefined), dunder tells whether the       *)
(*           entries of $input.obj / $output.obj carry own keys that start *)
(*           with "__"                                                     *)
(* An encoded record (JSON, LZ4, base64url) is a token: EncLen(id) copies  *)
(* of the character id.  A token decodes only if it is whole.              *)
(***************************************************************************)
\* the length of the longest token
MaxTokLen == 3
\* the size of a chunk: stands for the 100000 bytes given to stream-chunker
ChunkSize == 3

RecIds == {"a", "b"}
EncLen(id) == IF id = "a" THEN 1 ELSE MaxTokLen

Record(id, qEdge, dunder) == [id |-> id, qEdge |-> qEdge, dunder |-> dunder]

\* _copyRecord: trapi_qEdge_obj is set to undefined; own keys of the node objects
\* that start with "__" are left out, getters become own properties
_copyRecord(record) == [record EXCEPT !.qEdge = Undefined, !.dunder = FALSE]

\* JSON.stringify, lz4.encode, toString('base64url'): an undefined property is
\* not written
EncodeToken(record) == [i \in 1..EncLen(record.id) |-> record.id]

\* JSON.parse(lz4.decode(Buffer.from(part, 'base64url'))): ok is FALSE where the
\* code throws
DecodeToken(part) ==
  IF /\ Len(part) > 0
     /\ part[1] \in RecIds
     /\ Len(part) = EncLen(part[1])
     /\ \A i \in 1..Len(part) : part[i] = part[1]
  THEN [ok |-> TRUE, record |-> Record(part[1], Undefined, FALSE)]
  ELSE [ok |-> FALSE, record |-> Null]

RECURSIVE EncodeStream(_)
\* createEncodeStream: each record's token followed by ','
EncodeStream(records) ==
  IF Len(records) = 0 THEN <<>>
  ELSE EncodeToken(records[1]) \o <<",">> \o EncodeStream(Tail(records))

RECURSIVE Chunker(_, _)
\* chunker(size, {flush: true}): pieces of size characters, the rest as a last piece
Chunker(str, size) ==
  IF Len(str) = 0 THEN <<>>
  ELSE IF Len(str) <= size THEN <<str>>
  ELSE <<SubSeq(str, 1, size)>> \o Chunker(SubSeq(str, size + 1, Len(str)), size)

Includes(str, c) == \E i \in 1..Len(str) : str[i] = c

RECURSIVE Split(_, _)
\* String.prototype.split: the pieces of str between the occurrences of c
Split(str, c) ==
  IF ~Includes(str, c) THEN <<str>>
  ELSE LET i == CHOOSE j \in 1..Len(str) :
                  str[j] = c /\ \A k \in 1..(j - 1) : str[k] # c
       IN <<SubSeq(str, 1, i - 1)>> \o Split(SubSeq(str, i + 1, Len(str)), c)

RECURSIVE DecodeParts(_, _)
\* parts.forEach of _transform: the records pushed, up to the first part that
\* does not parse
DecodeParts(parts, out) ==
  IF Len(parts) = 0 THEN [ok |-> TRUE, out |-> out]
  ELSE LET d == DecodeToken(parts[1])
       IN IF d.ok THEN DecodeParts(Tail(parts), Append(out, d.record))
          ELSE [ok |-> FALSE, out |-> out]

\* _flush: a buffer that is not empty is parsed and pushed; an error goes to the
\* callback, and the stream emits 'error', which nothing listens for. After the
\* push of a parsed buffer the callback is called a second time ("endTwice")
_flush(buffer, out) ==
  IF Len(buffer) = 0 THEN [status |-> "end", records |-> out]
  ELSE LET d == DecodeToken(buffer)
       IN IF d.ok THEN [status |-> "endTwice", records |-> Append(out, d.record)]
          ELSE [status |-> "error", records |-> out]

\* what the stream does with a callback called twice is up to the runtime:
\* the second call is ignored and 'end' is emitted, or the stream is destroyed
\* with an error
StreamOutcomes(status) == IF status = "endTwice" THEN {"end", "error"} ELSE {status}

RECURSIVE DecodeStream(_, _, _)
\* DelimitedChunks fed the chunks in order. _transform adds the chunk to the
\* buffer; with a ',' in the buffer it parses every part but the last, keeps the
\* last and calls back; without one it does not call back and the stream takes
\* no further chunk. status: "end" ('end' is emitted), "stalled" (no callback),
\* "throw" (_transform throws), "error" (_flush reports an error), "endTwice"
DecodeStream(chunks, buffer, out) ==
  IF Len(chunks) = 0 THEN _flush(buffer, out)
  ELSE LET buf == buffer \o chunks[1]
       IN IF Includes(buf, ",")
          THEN LET parts == Split(buf, ",")
                   d == DecodeParts(SubSeq(parts, 1, Len(parts) - 1), out)
               IN IF d.ok THEN DecodeStream(Tail(chunks), parts[Len(parts)], d.out)
                  ELSE [status |-> "throw", records |-> d.out]
          ELSE [status |-> "stalled", records |-> out]

RECURSIVE InsertByField(_, _)
InsertByField(sorted, entry) ==
  IF Len(sorted) = 0 THEN <<entry>>
  ELSE IF entry.field < sorted[1].field THEN <<entry>> \o sorted
  ELSE <<sorted[1]>> \o InsertByField(Tail(sorted), entry)

RECURSIVE SortByField(_)
\* Object.entries(cachedRecord).sort by parseInt(key): the entries in ascending
\* numeric field order (a stable sort; the fields of a hash are distinct)
SortByField(entries) ==
  IF Len(entries) = 0 THEN <<>>
  ELSE InsertByField(SortByField(SubSeq(entries, 1, Len(entries) - 1)),
                     entries[Len(entries)])

\* sortedRecords of categorizeEdges: the values in ascending field order
sortedRecords(cachedRecord) ==
  LET sorted == SortByField(cachedRecord)
  IN [i \in 1..Len(sorted) |-> sorted[i].val]

(***************************************************************************)
(* State.                                                                  *)
(*   kIn, kOut   two execution edges and two catalogs, and their keys      *)
(*   env         process.env and the worker's parentPort                   *)
(*   store       the backend's hashes: for each key the entries            *)
(*               [field, val] in the order the backend returns them        *)
(*   ttl         for each key its time to live (0: none)                   *)
(*   lock        for each key the query that holds its lock, or "free"     *)
(*   pending     the HSET commands issued and not yet executed             *)
(*   failures    the number of backend commands that have failed           *)
(*   q           for each concurrent query its cache handler and the       *)
(*               position of its categorizeEdges or cacheEdges call        *)
(*   tq          a TRAPIQueryHandler and the position of its query() call  *)
(*   rs          a QueryResult and the position of its update() call       *)
(*   call        a method that keeps no position: its argument and what    *)
(*               its successive applications returned                       *)
(***************************************************************************)
VARIABLES kIn, kOut, env, store, ttl, lock, pending, failures, q, tq, rs, call

keyVars == <<kIn, kOut>>
cacheVars == <<env, store, ttl, lock, pending, failures, q>>
queryVars == <<tq>>
resultVars == <<rs>>
callVars == <<call>>
vars == <<kIn, kOut, env, store, ttl, lock, pending, failures, q, tq, rs, call>>

(***************************************************************************)
(* The cache key as a function of the edge and the catalog: the inputs are *)
(* drawn in KeyInit and ComputeKeys applies the code to them.              *)
(***************************************************************************)
KeyCategoryLists == {<<>>, <<Gene>>, <<Gene, Disease>>, <<Disease, Gene>>}
KeySubjects ==
  {QNode("n0", c, u) : c \in KeyCategoryLists,
                       u \in {NoCurie, Curies(<<CurieX>>), Curies(<<CurieX, CurieY>>)}}
KeyObjects ==
  {QNode("n1", c, u) : c \in KeyCategoryLists \ {<<>>}, u \in {NoCurie, Curies(<<CurieY>>)}}
KeyEdges ==
  {QXEdge(id, s, o, p, r) : id \in {"e0", "e1"}, s \in KeySubjects, o \in KeyObjects,
                            p \in {NoPredicate, Predicates(<<Treats>>)}, r \in BOOLEAN}

Range(f) == {f[i] : i \in DOMAIN f}

\* a and b have the same categories up to their order, and the same predicates and curies
SameUpToCategoryOrder(a, b) ==
  /\ Range(a.subject.categories) = Range(b.subject.categories)
  /\ Len(a.subject.categories) = Len(b.subject.categories)
  /\ Range(a.object.categories) = Range(b.object.categories)
  /\ Len(a.object.categories) = Len(b.object.categories)
  /\ a.predicate = b.predicate
  /\ a.subject.curie = b.subject.curie
  /\ a.object.curie = b.object.curie

KeyIdle == kIn = <<>> /\ kOut = <<>>

CacheIdle ==
  /\ env = <<>> /\ store = <<>> /\ ttl = <<>> /\ lock = <<>> /\ pending = {}
  /\ failures = 0 /\ q = <<>>

QueryIdle == tq = <<>>

ResultsIdle == rs = <<>>

CallIdle == call = <<>>

KeyInit ==
  /\ CacheIdle
  /\ QueryIdle
  /\ ResultsIdle
  /\ CallIdle
  /\ \/ \E a \in {e \in KeyEdges : e.id = "e0" /\ ~e.reverse} :
          \E b \in {e \in KeyEdges : SameUpToCategoryOrder(a, e)} :
            \E kg \in Catalogs :
              kIn = [edgeA |-> a, edgeB |-> b, kgA |-> kg, kgB |-> kg]
     \/ \E a \in {e \in KeyEdges : e.id = "e0" /\ ~e.reverse /\ e.predicate.defined
                                    /\ e.object.categories = <<Gene>>
                                    /\ e.subject.categories = <<Gene>>} :
          \E kg1 \in Catalogs, kg2 \in Catalogs :
            kIn = [edgeA |-> a, edgeB |-> a, kgA |-> kg1, kgB |-> kg2]
  /\ kOut = [done |-> FALSE]

\* the keys of both edges, and the strings hashed into them
ComputeKeys ==
  /\ ~kOut.done
  /\ kOut' = [done |-> TRUE,
              inputA |-> getInputCurie(kIn.edgeA),
              inputB |-> getInputCurie(kIn.edgeB),
              strA |-> KGString(getHashedEdgeRepresentation(kIn.edgeA), kIn.kgA),
              strB |-> KGString(getHashedEdgeRepresentation(kIn.edgeB), kIn.kgB),
              keyA |-> CacheKey(kIn.edgeA, kIn.kgA),
              keyB |-> CacheKey(kIn.edgeB, kIn.kgB)]
  /\ UNCHANGED <<callVars, kIn, cacheVars, queryVars, resultVars>>

KeyNext == ComputeKeys

SpecKey == KeyInit /\ [][KeyNext]_vars

\* C6: two execution edges that agree on subject categories, predicates, object
\* categories and curies up to the order of the categories inside a category list,
\* looked up under the same catalog, get the same cache key, whatever their ids and
\* direction.
C6_KeyIgnoresCategoryOrder ==
  (kOut.done /\ kIn.kgA = kIn.kgB /\ SameUpToCategoryOrder(kIn.edgeA, kIn.edgeB))
    => kOut.keyA = kOut.keyB

\* the ids of the APIs of a catalog
ApiIdSet(metaKG) == Range(metaKG.ops)

CatalogChanged(kg1, kg2) ==
  \/ Len(kg1.ops) # Len(kg2.ops)
  \/ ApiIdSet(kg1) # ApiIdSet(kg2)

MaxFailures == 1
\* REDIS_KEY_EXPIRE_TIME when it is set (0 stands for unset or empty)
CustomExpireTime == 300
DefaultExpireTime == 600

Procs == {"q1", "q2"}

\* the execution edges the queries look up and cache
XEdge0 ==
  QXEdge("e0", QNode("n0", <<Gene>>, Curies(<<CurieX>>)), QNode("n1", <<Disease>>, NoCurie),
         Predicates(<<Treats>>), FALSE)
XEdge1 ==
  QXEdge("e1", QNode("n1", <<Disease>>, NoCurie), QNode("n2", <<Gene>>, Curies(<<CurieY>>)),
         NoPredicate, TRUE)
XEdgeById(id) == IF id = "e0" THEN XEdge0 ELSE XEdge1
XEdgeIds == {"e0", "e1"}

\* the catalog the cache handlers are constructed with
HandlerMetaKG == MetaKG(<<[i \in 1..IdWidth |-> "a"]>>)

KeyOfXEdge0 == CacheKey(XEdge0, HandlerMetaKG)
KeyOfXEdge1 == CacheKey(XEdge1, HandlerMetaKG)
KeyOfEdge(id) == IF id = "e0" THEN KeyOfXEdge0 ELSE KeyOfXEdge1
Keys == {KeyOfEdge(id) : id \in XEdgeIds}

Environments ==
  { [RESULT_CACHING |-> Undefined, REDIS_HOST |-> "host", REDIS_PORT |-> "6379",
     REDIS_KEY_EXPIRE_TIME |-> 0, parentPort |-> TRUE],
    [RESULT_CACHING |-> "true", REDIS_HOST |-> "host", REDIS_PORT |-> "6379",
     REDIS_KEY_EXPIRE_TIME |-> CustomExpireTime, parentPort |-> FALSE],
    [RESULT_CACHING |-> "false", REDIS_HOST |-> "host", REDIS_PORT |-> "6379",
     REDIS_KEY_EXPIRE_TIME |-> 0, parentPort |-> TRUE],
    [RESULT_CACHING |-> Undefined, REDIS_HOST |-> Undefined, REDIS_PORT |-> "6379",
     REDIS_KEY_EXPIRE_TIME |-> 0, parentPort |-> FALSE],
    [RESULT_CACHING |-> Undefined, REDIS_HOST |-> "host", REDIS_PORT |-> Undefined,
     REDIS_KEY_EXPIRE_TIME |-> 0, parentPort |-> TRUE] }

\* the caching argument of the constructor: options.caching
CachingArgs == {Undefined, "false"}

\* this.cacheEnabled as it would be without the test of REDIS_PORT
cacheEnabledIgnoringPort(caching, e) ==
  IF caching = "false" THEN FALSE
  ELSE IF e.RESULT_CACHING # "false" THEN e.REDIS_HOST # Undefined
  ELSE FALSE

\* this.cacheEnabled of the constructor
cacheEnabled(caching, e) ==
  IF caching = "false" THEN FALSE
  ELSE IF e.RESULT_CACHING # "false"
       THEN e.REDIS_HOST # Undefined /\ e.REDIS_PORT # Undefined
  ELSE FALSE

\* process.env.REDIS_KEY_EXPIRE_TIME || 600
ExpireTime(e) ==
  IF e.REDIS_KEY_EXPIRE_TIME = 0 THEN DefaultExpireTime ELSE e.REDIS_KEY_EXPIRE_TIME

\* the inputs of the calls
LookupInputs == {<<"e0">>, <<"e0", "e1">>}
StoreInputs ==
  { <<Record("a", "e0", FALSE)>>,
    <<Record("a", "e0", FALSE), Record("b", "e0", TRUE)>>,
    <<Record("b", "e0", TRUE)>>,
    <<Record("a", "e1", TRUE), Record("a", Undefined, FALSE), Record("a", "e0", FALSE)>> }

RECURSIVE SelectRecords(_, _)
SelectRecords(records, key) ==
  IF Len(records) = 0 THEN <<>>
  ELSE LET r == records[1]
           rest == SelectRecords(Tail(records), key)
       IN IF r.qEdge # Undefined /\ KeyOfEdge(r.qEdge) = key
          THEN <<_copyRecord(r)>> \o rest
          ELSE rest

RECURSIVE RecordKeys(_)
RecordKeys(records) ==
  IF Len(records) = 0 THEN <<>>
  ELSE IF records[1].qEdge = Undefined THEN RecordKeys(Tail(records))
  ELSE <<KeyOfEdge(records[1].qEdge)>> \o RecordKeys(Tail(records))

\* _groupQueryRecordsByQXEdgeHash: the copies of the records under each key, a
\* record without an execution edge skipped; qXEdgeHashes is Object.keys of it
groupedRecords(queryRecords, key) == SelectRecords(queryRecords, key)
qXEdgeHashes(queryRecords) == Unique(RecordKeys(queryRecords))

DebugLog(msg) == [level |-> "DEBUG", type |-> msg, edge_id |-> Null]
CacheHitLog(id) == [level |-> "DEBUG", type |-> "cacheHit", edge_id |-> id]

\* a cache handler after its constructor, before any call
Handler(caching, e) ==
  [pc |-> "idle", op |-> "none", caching |-> caching,
   cacheEnabled |-> cacheEnabled(caching, e),
   qXEdges |-> <<>>, queryRecords |-> <<>>, i |-> 0,
   cachedRecords |-> <<>>, nonCachedQXEdges |-> <<>>,
   logs |-> <<DebugLog(IF cacheEnabled(caching, e) THEN "enabled" ELSE "not enabled")>>,
   found |-> FALSE, chunks |-> <<>>, posted |-> <<>>,
   acq |-> 0, rel |-> 0, cmds |-> 0]

\* the entry a finished write of records leaves: the chunks under the fields from 0
WrittenEntry(records) ==
  LET chunks == Chunker(EncodeStream(records), ChunkSize)
  IN [j \in 1..Len(chunks) |-> [field |-> j - 1, val |-> chunks[j]]]

\* what an earlier query has left under the key of e0: nothing, or two records
EarlierRecords == <<Record("a", Undefined, FALSE), Record("b", Undefined, FALSE)>>
EarlierEntries == {<<>>, WrittenEntry(EarlierRecords)}

CacheInit ==
  /\ KeyIdle
  /\ QueryIdle
  /\ ResultsIdle
  /\ CallIdle
  /\ env \in Environments
  /\ \E old \in EarlierEntries :
       /\ store = [k \in Keys |-> IF k = KeyOfEdge("e0") THEN old ELSE <<>>]
       /\ ttl = [k \in Keys |-> IF k = KeyOfEdge("e0") /\ old # <<>> THEN ExpireTime(env) ELSE 0]
  /\ lock = [k \in Keys |-> "free"]
  /\ pending = {}
  /\ failures = 0
  /\ \E caching \in [Procs -> CachingArgs] : q = [p \in Procs |-> Handler(caching[p], env)]

\* the key the call of p is at
CurrentKey(p) ==
  IF q[p].op = "lookup" THEN KeyOfEdge(q[p].qXEdges[q[p].i])
  ELSE qXEdgeHashes(q[p].queryRecords)[q[p].i]

PostMessage(posted, msg) == IF env.parentPort THEN Append(posted, msg) ELSE posted

(***************************************************************************)
(* categorizeEdges                                                         *)
(***************************************************************************)
\* the batch handler of query p constructs a cache handler and calls
\* categorizeEdges(qXEdges); with the cache disabled it returns at once
StartLookup(p) ==
  /\ q[p].pc = "idle"
  /\ q[p].op = "none"
  /\ \E edges \in LookupInputs :
       LET h == [Handler(q[p].caching, env) EXCEPT
                   !.op = "lookup", !.qXEdges = edges]
       IN q' = [q EXCEPT ![p] =
                  IF ~h.cacheEnabled
                  THEN [h EXCEPT !.nonCachedQXEdges = edges]
                  ELSE [h EXCEPT !.pc = "r_lock", !.i = 1]]
  /\ UNCHANGED <<callVars, keyVars, queryVars, resultVars, env, store, ttl, lock, pending, failures>>

\* await redisClient.lock('redisLock:' + qXEdgeKGHashes)
AcquireReadLock(p) ==
  /\ q[p].pc = "r_lock"
  /\ lock[CurrentKey(p)] = "free"
  /\ lock' = [lock EXCEPT ![CurrentKey(p)] = p]
  /\ q' = [q EXCEPT ![p].pc = "r_hgetall", ![p].acq = @ + 1, ![p].cmds = @ + 1]
  /\ UNCHANGED <<callVars, keyVars, queryVars, resultVars, env, store, ttl, pending, failures>>

\* await redisClient.hgetallAsync(redisID): null for a key that does not exist;
\* otherwise the values are sorted and piped into the decode stream
Hgetall(p) ==
  /\ q[p].pc = "r_hgetall"
  /\ LET cachedRecord == store[CurrentKey(p)]
     IN q' = [q EXCEPT ![p].pc = "r_unlock", ![p].cmds = @ + 1,
                       ![p].found = (cachedRecord # <<>>),
                       ![p].chunks = sortedRecords(cachedRecord)]
  /\ UNCHANGED <<callVars, keyVars, queryVars, resultVars, env, store, ttl, lock, pending, failures>>

\* hgetallAsync rejects: catch resolves null
HgetallFails(p) ==
  /\ q[p].pc = "r_hgetall"
  /\ q' = [q EXCEPT ![p].pc = "r_unlock", ![p].cmds = @ + 1,
                    ![p].found = FALSE, ![p].chunks = <<>>]
  /\ UNCHANGED <<callVars, keyVars, queryVars, resultVars, env, store, ttl, lock, pending>>
  /\ failures < MaxFailures
  /\ failures' = failures + 1

\* what would follow the promise if the edge were kept for querying after a hit too
AfterResolveKeepsHitEdge(h, hit, records) ==
  LET id == h.qXEdges[h.i]
      h1 == IF hit
            THEN [h EXCEPT
                    !.logs = Append(@, CacheHitLog(id)),
                    !.cachedRecords =
                       @ \o [j \in 1..Len(records) |-> [records[j] EXCEPT !.qEdge = id]],
                    !.nonCachedQXEdges = Append(@, id)]
            ELSE [h EXCEPT !.nonCachedQXEdges = Append(@, id)]
  IN IF h.i = Len(h.qXEdges)
     THEN [h1 EXCEPT !.pc = "idle", !.found = FALSE, !.chunks = <<>>]
     ELSE [h1 EXCEPT !.pc = "r_lock", !.i = @ + 1, !.found = FALSE, !.chunks = <<>>]

\* what follows the promise of one edge: a truthy cachedRecordJSON is a hit,
\* logged, its records given the edge and appended; then the next edge, or return
AfterResolve(h, hit, records) ==
  LET id == h.qXEdges[h.i]
      h1 == IF hit
            THEN [h EXCEPT
                    !.logs = Append(@, CacheHitLog(id)),
                    !.cachedRecords =
                       @ \o [j \in 1..Len(records) |-> [records[j] EXCEPT !.qEdge = id]]]
            ELSE [h EXCEPT !.nonCachedQXEdges = Append(@, id)]
  IN IF h.i = Len(h.qXEdges)
     THEN [h1 EXCEPT !.pc = "idle", !.found = FALSE, !.chunks = <<>>]
     ELSE [h1 EXCEPT !.pc = "r_lock", !.i = @ + 1, !.found = FALSE, !.chunks = <<>>]

\* the lookup as it would be with unlock() only on the path of a hit
ReadUnlockOnlyOnHit(p) ==
  /\ q[p].pc = "r_unlock"
  /\ lock' = IF q[p].found THEN [lock EXCEPT ![CurrentKey(p)] = "free"] ELSE lock
  /\ q' = [q EXCEPT ![p] =
             IF q[p].found THEN [q[p] EXCEPT !.pc = "r_decode", !.rel = @ + 1]
             ELSE AfterResolve(q[p], FALSE, <<>>)]
  /\ UNCHANGED <<callVars, keyVars, queryVars, resultVars, env, store, ttl, pending, failures>>

\* finally { unlock() }: it runs when the try block is left, which is before the
\* decode stream has read anything; a miss has resolved null by then
ReadUnlock(p) ==
  /\ q[p].pc = "r_unlock"
  /\ lock' = [lock EXCEPT ![CurrentKey(p)] = "free"]
  /\ q' = [q EXCEPT ![p] =
             IF q[p].found THEN [q[p] EXCEPT !.pc = "r_decode", !.rel = @ + 1]
             ELSE AfterResolve([q[p] EXCEPT !.rel = @ + 1], FALSE, <<>>)]
  /\ UNCHANGED <<callVars, keyVars, queryVars, resultVars, env, store, ttl, pending, failures>>

\* the decode stream runs: on 'end' the promise resolves with the records; when
\* _transform does not call back the stream stalls and the promise never
\* resolves; when _transform throws or _flush reports an error nothing handles
\* it: an uncaught exception, and the promise never resolves
Decode(p) ==
  /\ q[p].pc = "r_decode"
  /\ LET d == DecodeStream(q[p].chunks, <<>>, <<>>)
     IN \E outcome \in StreamOutcomes(d.status) :
          q' = [q EXCEPT ![p] =
                  CASE outcome = "end" -> AfterResolve(q[p], TRUE, d.records)
                    [] outcome = "stalled" -> [q[p] EXCEPT !.pc = "r_hung"]
                    [] OTHER -> [q[p] EXCEPT !.pc = "r_uncaught"]]
  /\ UNCHANGED <<callVars, keyVars, queryVars, resultVars, env, store, ttl, lock, pending, failures>>

(***************************************************************************)
(* cacheEdges                                                              *)
(***************************************************************************)
\* the end of cacheEdges: finally posts cacheDone
FinishStore(h) == [h EXCEPT !.pc = "idle", !.posted = PostMessage(@, "cacheDone")]

\* the batch handler of query p calls cacheEdges(queryRecords), after its lookup
\* or without one; with the cache disabled it posts cacheDone and returns
StartStore(p) ==
  /\ q[p].pc = "idle"
  /\ q[p].op # "store"
  /\ \E records \in StoreInputs :
       LET h == [Handler(q[p].caching, env) EXCEPT
                   !.op = "store", !.queryRecords = records]
       IN q' = [q EXCEPT ![p] =
                  IF ~h.cacheEnabled
                  THEN [h EXCEPT !.posted = PostMessage(@, "cacheDone")]
                  ELSE LET h1 == [h EXCEPT !.posted = PostMessage(@, "cacheInProgress")]
                       IN IF Len(qXEdgeHashes(records)) = 0 THEN FinishStore(h1)
                          ELSE [h1 EXCEPT !.pc = "w_lock", !.i = 1]]
  /\ UNCHANGED <<callVars, keyVars, queryVars, resultVars, env, store, ttl, lock, pending, failures>>

\* await redisClient.lock('redisLock:' + hash)
AcquireWriteLock(p) ==
  /\ q[p].pc = "w_lock"
  /\ lock[CurrentKey(p)] = "free"
  /\ lock' = [lock EXCEPT ![CurrentKey(p)] = p]
  /\ q' = [q EXCEPT ![p].pc = "w_del", ![p].acq = @ + 1, ![p].cmds = @ + 1]
  /\ UNCHANGED <<callVars, keyVars, queryVars, resultVars, env, store, ttl, pending, failures>>

\* await redisClient.delAsync(redisID): the key and its time to live are gone
Del(p) ==
  /\ q[p].pc = "w_del"
  /\ store' = [store EXCEPT ![CurrentKey(p)] = <<>>]
  /\ ttl' = [ttl EXCEPT ![CurrentKey(p)] = 0]
  /\ q' = [q EXCEPT ![p].pc = "w_stream", ![p].cmds = @ + 1]
  /\ UNCHANGED <<callVars, keyVars, queryVars, resultVars, env, lock, pending, failures>>

\* delAsync rejects: catch logs the error, and finally unlocks
DelFails(p) ==
  /\ q[p].pc = "w_del"
  /\ q' = [q EXCEPT ![p].pc = "w_unlock", ![p].cmds = @ + 1]
  /\ UNCHANGED <<callVars, keyVars, queryVars, resultVars, env, store, ttl, lock, pending>>
  /\ failures < MaxFailures
  /\ failures' = failures + 1

\* Readable.from(groupedRecords[hash]).pipe(createEncodeStream()).pipe(chunker):
\* the chunks of the records of a key, for every input of cacheEdges
StoreChunks ==
  [records \in StoreInputs |->
     [key \in Keys |-> Chunker(EncodeStream(groupedRecords(records, key)), ChunkSize)]]

\* the HSET commands of the chunks of a key: field String(i++) from 0
HsetCommands(p, key, chunks) ==
  {[key |-> key, field |-> j - 1, val |-> chunks[j], proc |-> p] : j \in 1..Len(chunks)}

\* the records of the key go through the encode stream and the chunker; the
\* 'data' handler of each chunk calls hsetAsync and nothing awaits the promise
\* it returns; 'end' resolves the promise cacheEdges awaits
WriteStream(p) ==
  /\ q[p].pc = "w_stream"
  /\ LET key == CurrentKey(p)
         chunks == StoreChunks[q[p].queryRecords][key]
     IN /\ pending' = pending \cup HsetCommands(p, key, chunks)
        /\ q' = [q EXCEPT ![p].pc = "w_expire", ![p].cmds = @ + Len(chunks)]
  /\ UNCHANGED <<callVars, keyVars, queryVars, resultVars, env, store, ttl, lock, failures>>

\* await redisClient.expireAsync(redisID, ...): a key that exists gets the time
\* to live, a key that does not exist is left alone
Expire(p) ==
  /\ q[p].pc = "w_expire"
  /\ ttl' = [ttl EXCEPT ![CurrentKey(p)] =
               IF store[CurrentKey(p)] # <<>> THEN ExpireTime(env) ELSE @]
  /\ q' = [q EXCEPT ![p].pc = "w_unlock", ![p].cmds = @ + 1]
  /\ UNCHANGED <<callVars, keyVars, queryVars, resultVars, env, store, lock, pending, failures>>

\* expireAsync rejects: catch logs the error, and finally unlocks
ExpireFails(p) ==
  /\ q[p].pc = "w_expire"
  /\ q' = [q EXCEPT ![p].pc = "w_unlock", ![p].cmds = @ + 1]
  /\ UNCHANGED <<callVars, keyVars, queryVars, resultVars, env, store, ttl, lock, pending>>
  /\ failures < MaxFailures
  /\ failures' = failures + 1

\* the write as it would go on if the lock of a key were kept until the call ends
WriteUnlockAtTheEnd(p) ==
  /\ q[p].pc = "w_unlock"
  /\ lock' = IF q[p].i = Len(qXEdgeHashes(q[p].queryRecords))
             THEN [k \in Keys |-> IF lock[k] = p THEN "free" ELSE lock[k]]
             ELSE lock
  /\ q' = [q EXCEPT ![p] =
             IF q[p].i = Len(qXEdgeHashes(q[p].queryRecords))
             THEN FinishStore([q[p] EXCEPT !.rel = @ + 1])
             ELSE [q[p] EXCEPT !.pc = "w_lock", !.i = @ + 1, !.rel = @ + 1]]
  /\ UNCHANGED <<callVars, keyVars, queryVars, resultVars, env, store, ttl, pending, failures>>

\* finally { unlock() }, then the next key of eachSeries, or the end of cacheEdges
WriteUnlock(p) ==
  /\ q[p].pc = "w_unlock"
  /\ lock' = [lock EXCEPT ![CurrentKey(p)] = "free"]
  /\ q' = [q EXCEPT ![p] =
             IF q[p].i = Len(qXEdgeHashes(q[p].queryRecords))
             THEN FinishStore([q[p] EXCEPT !.rel = @ + 1])
             ELSE [q[p] EXCEPT !.pc = "w_lock", !.i = @ + 1, !.rel = @ + 1]]
  /\ UNCHANGED <<callVars, keyVars, queryVars, resultVars, env, store, ttl, pending, failures>>

(***************************************************************************)
(* The backend                                                             *)
(***************************************************************************)
\* HSET key field val: the field's value is replaced, or the field is added
HsetEntry(entries, field, val) ==
  IF \E j \in 1..Len(entries) : entries[j].field = field
  THEN [j \in 1..Len(entries) |->
          IF entries[j].field = field THEN [field |-> field, val |-> val] ELSE entries[j]]
  ELSE Append(entries, [field |-> field, val |-> val])

\* the backend executes an HSET that was issued
HsetExecutes ==
  /\ \E c \in pending :
       /\ store' = [store EXCEPT ![c.key] = HsetEntry(@, c.field, c.val)]
       /\ pending' = pending \ {c}
  /\ UNCHANGED <<callVars, keyVars, queryVars, resultVars, env, ttl, lock, failures, q>>

\* an HSET that was issued fails: its promise rejects, and nothing handles it
HsetFails ==
  /\ failures < MaxFailures
  /\ failures' = failures + 1
  /\ \E c \in pending : pending' = pending \ {c}
  /\ UNCHANGED <<callVars, keyVars, queryVars, resultVars, env, store, ttl, lock, q>>

CacheNext ==
  \/ \E p \in Procs : StartLookup(p)
  \/ \E p \in Procs : AcquireReadLock(p)
  \/ \E p \in Procs : Hgetall(p)
  \/ \E p \in Procs : HgetallFails(p)
  \/ \E p \in Procs : ReadUnlock(p)
  \/ \E p \in Procs : Decode(p)
  \/ \E p \in Procs : StartStore(p)
  \/ \E p \in Procs : AcquireWriteLock(p)
  \/ \E p \in Procs : Del(p)
  \/ \E p \in Procs : DelFails(p)
  \/ \E p \in Procs : WriteStream(p)
  \/ \E p \in Procs : Expire(p)
  \/ \E p \in Procs : ExpireFails(p)
  \/ \E p \in Procs : WriteUnlock(p)
  \/ HsetExecutes
  \/ HsetFails

SpecCache == CacheInit /\ [][CacheNext]_vars


(***************************************************************************)
(* Properties of the cache handler, checked under SpecCache.               *)
(***************************************************************************)
\* the HSET commands issued for key and not yet executed
PendingOn(key) == {c \in pending : c.key = key}

\* the keys whose lock query p holds
LocksHeld(p) == {k \in Keys : lock[k] = p}

\* the positions of a call between its lock() and its unlock()
LockedPositions == {"r_hgetall", "r_unlock", "w_del", "w_stream", "w_expire", "w_unlock"}

\* C1: a lookup never observes a partially written entry: no HGETALL of a key
\* executes while a chunk write (HSET) of a writer of that key is not complete.
C1_NoPartialRead ==
  [][\A p \in Procs : Hgetall(p) => PendingOn(CurrentKey(p)) = {}]_vars

\* C2: every lock a call acquires is released exactly once on every exit path: a
\* query holds the lock of its current key exactly between lock() and unlock(),
\* it has released every other lock it acquired, and it holds none once the call
\* has returned or its decode has failed.
C2_LockReleasedOnce ==
  \A p \in Procs :
    /\ q[p].rel <= q[p].acq
    /\ IF q[p].pc \in LockedPositions
       THEN LocksHeld(p) = {CurrentKey(p)} /\ q[p].acq = q[p].rel + 1
       ELSE LocksHeld(p) = {} /\ q[p].acq = q[p].rel

\* a lookup whose decode failed after it acquired and released its lock, and a
\* write that went wrong and has returned with its lock released
C2_Witness ==
  \E p1, p2 \in Procs :
    /\ q[p1].pc = "r_uncaught" /\ q[p1].acq = 1 /\ q[p1].rel = 1 /\ LocksHeld(p1) = {}
    /\ q[p2].pc = "idle" /\ q[p2].op = "store" /\ q[p2].acq > 0 /\ q[p2].rel = q[p2].acq
    /\ failures > 0 /\ LocksHeld(p2) = {}

\* caching is disabled for query p: the caller passes caching = false, or
\* RESULT_CACHING is 'false', or REDIS_HOST or REDIS_PORT is unset
Disabled(p) ==
  \/ q[p].caching = "false"
  \/ env.RESULT_CACHING = "false"
  \/ env.REDIS_HOST = Undefined
  \/ env.REDIS_PORT = Undefined

\* C3: with caching disabled categorizeEdges returns no cached records and all
\* its input edges as not cached, cacheEdges writes nothing, and neither acquires
\* a lock or issues a backend command.
C3_DisabledIsNoOp ==
  \A p \in Procs :
    Disabled(p) =>
      /\ q[p].pc = "idle"
      /\ q[p].acq = 0 /\ q[p].cmds = 0 /\ LocksHeld(p) = {}
      /\ {c \in pending : c.proc = p} = {}
      /\ q[p].cachedRecords = <<>>
      /\ q[p].op = "lookup" => q[p].nonCachedQXEdges = q[p].qXEdges
      /\ q[p].op = "store" => q[p].nonCachedQXEdges = <<>>

\* one query with caching disabled has looked two edges up, another has called
\* cacheEdges
C3_Witness ==
  \E p1, p2 \in Procs :
    /\ Disabled(p1) /\ q[p1].op = "lookup" /\ Len(q[p1].nonCachedQXEdges) = 2
    /\ Disabled(p2) /\ q[p2].op = "store" /\ Len(q[p2].queryRecords) > 0

\* C4: a cached payload that cannot be decoded is a miss: the lookup of the edge
\* completes with the edge among the edges not cached and without a cacheHit log.
C4_DecodeFailureIsMiss ==
  [][\A p \in Procs :
       (Decode(p) /\ DecodeStream(q[p].chunks, <<>>, <<>>).status \in {"throw", "error"})
         => q'[p] = AfterResolve(q[p], FALSE, <<>>)]_vars

\* the record lists cacheEdges or an earlier query can have written under key
WrittenLists(key) ==
  {groupedRecords(records, key) : records \in StoreInputs}
    \cup (IF key = KeyOfEdge("e0") THEN {EarlierRecords} ELSE {})

\* C5: cache round trip: a lookup that finds an entry under the key of an edge
\* returns a record list that was written under that key, in the same order,
\* each record given the looked-up edge.
C5_RoundTrip ==
  [][\A p \in Procs :
       Decode(p) => \E L \in WrittenLists(CurrentKey(p)) :
                      Len(L) > 0 /\ q'[p] = AfterResolve(q[p], TRUE, L)]_vars

\* C8: a key written by cacheEdges carries the configured time to live: with no
\* backend failure, a key that exists and has no write in progress has a time to
\* live of REDIS_KEY_EXPIRE_TIME, or of 600 when that is unset.
C8_WrittenKeyHasTTL ==
  \A k \in Keys :
    (failures = 0 /\ store[k] # <<>> /\ lock[k] = "free" /\ PendingOn(k) = {})
      => ttl[k] = ExpireTime(env)

(***************************************************************************)
(* query(): the execution loop of TRAPIQueryHandler.                       *)
(*   tq  [pc, dryrun, graph, qXEdges, current, active, invoked,            *)
(*        unavailableAPIs, logs, results, bound, kg, error]                *)
(*   pc       "start", "processed", "loop", "awaiting" (handler.query is   *)
(*            awaited), "returned", "threw"                                *)
(*   graph    [valid, edges, supported]: whether calculateEdges accepts    *)
(*            the query graph ("ok"), throws an InvalidQueryGraphError     *)
(*            ("invalid") or throws another error ("other"); its QEdge     *)
(*            ids; the ids that have MetaKG operations                     *)
(*   qXEdges  for each execution edge [executed, records, stored,          *)
(*            propagated, reverse, subject_entity_count,                   *)
(*            object_entity_count]: records is the number of records it    *)
(*            holds, the counts are the entity_count of its two QNodes     *)
(*   active   the number of handler.query calls that have not settled      *)
(*   invoked  the edges handler.query was called for, in order             *)
(*   results  the number of results the assembler holds                    *)
(*   error    the error query() has thrown: [name, statusCode, message],   *)
(*            statusCode 0 where the error has none                        *)
(*   bound    the nodes and edges of the records that the results bind     *)
(*   kg       the nodes and edges the knowledge graph holds: the edge of   *)
(*            record k of a QEdge, and the nodes at its two ends           *)
(***************************************************************************)
\* the most QEdges of a query graph
MaxQEdges == 3
\* the most records the batch handler returns for an edge
MaxRecords == 2
\* the queries to an unavailable API that one batch handler run reports
SkippedQueries == 2

QEdgeIds(n) == [i \in 1..n |-> <<"e", Digit(i)>>]

Log(level, type, edge) == [level |-> level, type |-> type, edge |-> edge]

QueryGraphs ==
  {[valid |-> v, edges |-> QEdgeIds(n), supported |-> sup] :
     v \in {"ok", "invalid", "other"}, n \in 1..MaxQEdges,
     sup \in {{}, Range(QEdgeIds(1)), Range(QEdgeIds(MaxQEdges))}}

\* new InvalidQueryGraphError(message): the constructor sets the name and the
\* status code
InvalidQueryGraphError(message) ==
  [name |-> "InvalidQueryGraphError", statusCode |-> 400, message |-> message]
DefaultMessage == "Your Input Query Graph is invalid."

\* an error of another kind, and no error
OtherError == [name |-> "TypeError", statusCode |-> 0, message |-> "other"]
NoError == [name |-> "none", statusCode |-> 0, message |-> ""]

\* what calculateEdges throws for the graph
CalculateEdgesError(g) ==
  IF g.valid = "invalid" THEN InvalidQueryGraphError("cycle") ELSE OtherError

\* the catch of _processQueryGraph as it would be if it rethrew every error
RethrowAsIs(err) == err

\* the catch of _processQueryGraph: an InvalidQueryGraphError is rethrown, any
\* other error is replaced by a new InvalidQueryGraphError()
CatchProcessQueryGraph(err) ==
  IF err.name = "InvalidQueryGraphError" THEN err
  ELSE InvalidQueryGraphError(DefaultMessage)

\* a query execution edge as calculateEdges returns it
\* a subject QNode built with one curie and an object QNode built with two
NewQXEdge ==
  [executed |-> FALSE, records |-> 0, stored |-> FALSE, propagated |-> FALSE,
   reverse |-> FALSE, subject_entity_count |-> 1, object_entity_count |-> 2]

\* the handler after setQueryGraph, before query()
QueryInit ==
  /\ KeyIdle
  /\ CacheIdle
  /\ ResultsIdle
  /\ CallIdle
  /\ \E g \in QueryGraphs, d \in BOOLEAN :
       tq = [pc |-> "start", dryrun |-> d, graph |-> g, qXEdges |-> <<>>, current |-> <<>>,
             active |-> 0, invoked |-> <<>>, unavailableAPIs |-> 0, logs |-> <<>>,
             results |-> 0, bound |-> {}, kg |-> {}, error |-> NoError]

\* _initializeResponse, _loadMetaKG and _processQueryGraph: an error of
\* calculateEdges is rethrown as, or replaced by, an InvalidQueryGraphError
ProcessQueryGraph ==
  /\ tq.pc = "start"
  /\ tq' = IF tq.graph.valid = "ok"
           THEN [tq EXCEPT !.pc = "processed",
                           !.qXEdges = [e \in Range(tq.graph.edges) |-> NewQXEdge]]
           ELSE [tq EXCEPT !.pc = "threw",
                           !.error = CatchProcessQueryGraph(CalculateEdgesError(tq.graph))]
  /\ UNCHANGED <<callVars, keyVars, cacheVars, resultVars>>

\* qEdgesMissingOps: the edges of the graph without MetaKG operations
MissingOps(g) == {e \in Range(g.edges) : e \notin g.supported}

\* the orders in which the manager of the copy hands out the edges
VisitOrders(g) ==
  {o \in [1..Len(g.edges) -> Range(g.edges)] : \A i, j \in DOMAIN o : o[i] = o[j] => i = j}

RECURSIVE DryrunLogs(_, _)
\* the logs of a dry run for the edges in the order visited: the edge, and for an
\* edge with operations the number of planned queries and each operation
DryrunLogs(order, supported) ==
  IF Len(order) = 0 THEN <<>>
  ELSE LET e == order[1]
       IN <<Log("INFO", "planned", e)>>
            \o (IF e \in supported
                THEN <<Log("INFO", "plannedQueries", e), Log("DEBUG", "metaXEdge", e)>>
                ELSE <<>>)
            \o DryrunLogs(Tail(order), supported)

RECURSIVE qEdgesToLog(_, _)
\* Object.entries(qEdgesMissingOps): the edges without operations, in the order
\* visited
qEdgesToLog(order, supported) ==
  IF Len(order) = 0 THEN <<>>
  ELSE (IF order[1] \in supported THEN <<>> ELSE <<order[1]>>)
         \o qEdgesToLog(Tail(order), supported)

\* the value of _edgesSupported as it would be if a dry run did not make it false
ReturnValueIgnoresDryrun(missing, dryrun) == Len(missing) = 0

\* the value of _edgesSupported as it would be if only a dry run made it false
ReturnValueDryrunOnly(missing, dryrun) == ~dryrun

\* the value _edgesSupported returns
ReturnValue(missing, dryrun) == Len(missing) = 0 /\ ~dryrun

\* the edge objects as they would be if the manager of _edgesSupported were built
\* on the array query() passed
ManagerOfPassedEdges(qXEdges) == [real |-> qXEdges, copy |-> qXEdges, manager |-> "real"]

\* qXEdges = _.cloneDeep(qXEdges); new EdgeManager(qXEdges): real are the edge
\* objects of query(), copy their clones, and the manager of _edgesSupported
\* holds the clones
CloneDeep(qXEdges) == [real |-> qXEdges, copy |-> qXEdges, manager |-> "copy"]

\* metaXEdges.length of an edge
MetaXEdgesLength(e, supported) == IF e \in supported THEN 1 ELSE 0

RECURSIVE PreCheckLoop(_, _, _, _)
\* the loop of _edgesSupported over the manager's edges in the order visited:
\* getNext() may flip the edge's direction (the edges of flips); the edge is set
\* executed and the entity counts of its QNodes are set to the estimate
PreCheckLoop(objs, order, flips, supported) ==
  IF Len(order) = 0 THEN objs
  ELSE LET e == order[1]
           currentQXEdge == objs[objs.manager][e]
           reverse == IF e \in flips THEN ~currentQXEdge.reverse ELSE currentQXEdge.reverse
           length == MetaXEdgesLength(e, supported)
           after == [currentQXEdge EXCEPT
                       !.reverse = reverse,
                       !.executed = TRUE,
                       !.subject_entity_count =
                          IF length = 0 THEN 1
                          ELSE IF reverse THEN currentQXEdge.object_entity_count * length
                          ELSE @,
                       !.object_entity_count =
                          IF length = 0 THEN 1
                          ELSE IF reverse THEN @
                          ELSE currentQXEdge.subject_entity_count * length]
       IN PreCheckLoop([objs EXCEPT ![objs.manager][e] = after], Tail(order), flips,
                       supported)

\* _edgesSupported: it works on a deep copy of the execution edges; false when an
\* edge has no operation (one WARNING log that names the edges) or the query is a
\* dry run; on false query() returns
EdgesSupported ==
  /\ tq.pc = "processed"
  /\ \E order \in VisitOrders(tq.graph), flips \in SUBSET Range(tq.graph.edges) :
       LET objs == PreCheckLoop(CloneDeep(tq.qXEdges), order, flips, tq.graph.supported)
           dryLogs == IF tq.dryrun
                      THEN <<Log("INFO", "dryrun", <<>>)>>
                             \o DryrunLogs(order, tq.graph.supported)
                      ELSE <<>>
           missing == qEdgesToLog(order, tq.graph.supported)
           terminateLog == IF Len(missing) > 0
                           THEN <<Log("WARNING", "noMetaKGEdges", missing)>>
                           ELSE <<>>
       IN tq' = [tq EXCEPT !.pc = IF ReturnValue(missing, tq.dryrun) THEN "loop"
                                  ELSE "returned",
                           !.qXEdges = objs.real,
                           !.logs = @ \o dryLogs \o terminateLog]
  /\ UNCHANGED <<callVars, keyVars, cacheVars, resultVars>>

\* manager.getEdgesNotExecuted()
EdgesNotExecuted(t) == {e \in DOMAIN t.qXEdges : ~t.qXEdges[e].executed}

\* the loop as it would turn without awaiting handler.query
LoopHeadWithoutAwait(t) == t.pc \in {"loop", "awaiting"}

\* the loop takes its next turn when the awaited handler.query has settled
LoopHead(t) == t.pc = "loop"

\* the head of the loop: manager.getNext(), a batch handler for the edge, the
\* 'Executing' log, and the call of handler.query, which query() awaits
GetNext ==
  /\ LoopHead(tq)
  /\ \E e \in EdgesNotExecuted(tq) :
       tq' = [tq EXCEPT !.pc = "awaiting", !.current = e, !.active = @ + 1,
                        !.invoked = Append(@, e),
                        !.logs = Append(@, Log("INFO", "executing", e))]
  /\ UNCHANGED <<callVars, keyVars, cacheVars, resultVars>>

\* _logSkippedQueries: a WARNING when more than one query to the API failed
SkippedLogs(unavailable) ==
  IF unavailable - 1 > 0 THEN <<Log("WARNING", "skipped", <<>>)>> ELSE <<>>

\* the records the other edges keep after manager.updateAllOtherEdges: an edge's
\* records only shrink
Shrinkings(t, e) ==
  {f \in [DOMAIN t.qXEdges \ {e} -> 0..MaxRecords] :
     \A o \in DOMAIN f : f[o] <= t.qXEdges[o].records}

\* the loop body as it would be without its two returns: the edge is stored,
\* executed and the loop goes on, whatever the number of records
AfterQueryKeepsGoing(t, n, skipped, kept, others) ==
  LET e == t.current
  IN [t EXCEPT !.pc = "loop", !.active = @ - 1,
               !.unavailableAPIs = @ + skipped,
               !.logs = @ \o <<Log("DEBUG", "query", e), Log("INFO", "execution", e)>>,
               !.qXEdges = [o \in DOMAIN t.qXEdges |->
                              IF o = e
                              THEN [t.qXEdges[e] EXCEPT !.executed = TRUE, !.records = kept,
                                                        !.stored = TRUE, !.propagated = TRUE]
                              ELSE [t.qXEdges[o] EXCEPT !.records = others[o]]]]

AfterQueryLeavesUnexecuted(t, n, skipped, kept, others) ==
  LET e == t.current
      t1 == [t EXCEPT !.active = @ - 1,
                      !.unavailableAPIs = @ + skipped,
                      !.logs = @ \o <<Log("DEBUG", "query", e), Log("INFO", "execution", e)>>]
      t2 == [t1 EXCEPT !.qXEdges =
                          [o \in DOMAIN t.qXEdges |->
                             IF o = e
                             THEN [t.qXEdges[e] EXCEPT !.records = kept, !.stored = TRUE,
                                                       !.propagated = TRUE]
                             ELSE [t.qXEdges[o] EXCEPT !.records = others[o]]]]
  IN IF n = 0
     THEN [t1 EXCEPT !.pc = "returned",
                     !.logs = @ \o SkippedLogs(t1.unavailableAPIs)
                                \o <<Log("WARNING", "got0", e)>>]
     ELSE IF kept = 0
     THEN [t2 EXCEPT !.pc = "returned",
                     !.logs = @ \o SkippedLogs(t2.unavailableAPIs)
                                \o <<Log("WARNING", "kept0", e)>>]
     ELSE [t2 EXCEPT !.pc = "loop"]

\* query() after handler.query has returned n records: the handler's logs and
\* the execution summary; with no record the WARNING and return; storeRecords,
\* updateEdgeRecords (the edge keeps kept records), updateAllOtherEdges; with no
\* record kept the WARNING and return; else the edge is executed
AfterQuery(t, n, skipped, kept, others) ==
  LET e == t.current
      t1 == [t EXCEPT !.active = @ - 1,
                      !.unavailableAPIs = @ + skipped,
                      !.logs = @ \o <<Log("DEBUG", "query", e), Log("INFO", "execution", e)>>]
      t2 == [t1 EXCEPT !.qXEdges =
                          [o \in DOMAIN t.qXEdges |->
                             IF o = e
                             THEN [t.qXEdges[e] EXCEPT !.records = kept, !.stored = TRUE,
                                                       !.propagated = TRUE]
                             ELSE [t.qXEdges[o] EXCEPT !.records = others[o]]]]
  IN IF n = 0
     THEN [t1 EXCEPT !.pc = "returned",
                     !.logs = @ \o SkippedLogs(t1.unavailableAPIs)
                                \o <<Log("WARNING", "got0", e)>>]
     ELSE IF kept = 0
     THEN [t2 EXCEPT !.pc = "returned",
                     !.logs = @ \o SkippedLogs(t2.unavailableAPIs)
                                \o <<Log("WARNING", "kept0", e)>>]
     ELSE [t2 EXCEPT !.pc = "loop", !.qXEdges[e].executed = TRUE]

\* the awaited handler.query returns its records
HandlerQueryReturns ==
  /\ tq.pc = "awaiting"
  /\ \E n \in 0..MaxRecords, skipped \in {0, SkippedQueries} :
       \E kept \in 0..n, others \in Shrinkings(tq, tq.current) :
         /\ n = 0 => others = [o \in DOMAIN others |-> tq.qXEdges[o].records]
         /\ tq' = AfterQuery(tq, n, skipped, kept, others)
  /\ UNCHANGED <<callVars, keyVars, cacheVars, resultVars>>

\* the awaited handler.query rejects: nothing in query() catches it
HandlerQueryThrows ==
  /\ tq.pc = "awaiting"
  /\ tq' = [tq EXCEPT !.pc = "threw", !.active = @ - 1, !.error = OtherError]
  /\ UNCHANGED <<callVars, keyVars, cacheVars, resultVars>>

\* the edge and the two nodes that record k of QEdge e stands for
GraphElements(e, k) ==
  {[kind |-> "edge", qEdge |-> e, record |-> k],
   [kind |-> "node", qEdge |-> e, record |-> k, end |-> "subject"],
   [kind |-> "node", qEdge |-> e, record |-> k, end |-> "object"]}

\* bteGraph.update(manager.getRecords()): the nodes and edges of all records
GraphOfRecords(t) ==
  UNION {UNION {GraphElements(e, k) : k \in 1..t.qXEdges[e].records} : e \in DOMAIN t.qXEdges}

\* what r results bind: nothing when there is none, and else of every QEdge
\* its first records, all but drop of them and at least one
ResultBindings(t, r, drop) ==
  IF r = 0 THEN {}
  ELSE UNION {UNION {GraphElements(e, k) :
                       k \in 1..(IF t.qXEdges[e].records > drop
                                 THEN t.qXEdges[e].records - drop ELSE 1)} :
                e \in DOMAIN t.qXEdges}

\* bteGraph.prune(results): what the results do not bind is removed
Prune(graph, bound) == graph \cap bound

\* KnowledgeGraph.update(bteGraph): every node and edge of bteGraph is set in
\* this.nodes and this.edges, and nothing is deleted
KnowledgeGraphUpdate(kg, graph) == kg \cup graph

NotifyBeforePrune(t, bound) == KnowledgeGraphUpdate(t.kg, GraphOfRecords(t))

\* bteGraph.update, prune and notify in the order of query(): the knowledge
\* graph is updated from the pruned graph
NotifiedKnowledgeGraph(t, bound) ==
  KnowledgeGraphUpdate(t.kg, Prune(GraphOfRecords(t), bound))

\* after the loop: the skipped queries are logged, the records collected, the
\* results assembled, the graph pruned to them and the knowledge graph notified,
\* and the execution summary logged
Assemble ==
  /\ tq.pc = "loop"
  /\ EdgesNotExecuted(tq) = {}
  /\ \E r \in 0..MaxRecords, drop \in 0..(MaxRecords - 1) :
       /\ (\E e \in DOMAIN tq.qXEdges : tq.qXEdges[e].records = 0) => r = 0
       /\ r = 0 => drop = 0
       /\ tq' = [tq EXCEPT !.pc = "returned",
                           !.results = r,
                           !.bound = ResultBindings(tq, r, drop),
                           !.kg = NotifiedKnowledgeGraph(tq, ResultBindings(tq, r, drop)),
                           !.logs = @ \o SkippedLogs(tq.unavailableAPIs)
                                      \o <<Log("INFO", "summary", <<>>), Log("INFO", "apis", <<>>)>>]
  /\ UNCHANGED <<callVars, keyVars, cacheVars, resultVars>>

QueryNext ==
  \/ ProcessQueryGraph
  \/ EdgesSupported
  \/ GetNext
  \/ HandlerQueryReturns
  \/ HandlerQueryThrows
  \/ Assemble

SpecQuery == QueryInit /\ [][QueryNext]_vars

\* the edges handler.query was called for before the latest call
EarlierInvoked == {tq.invoked[i] : i \in 1..(Len(tq.invoked) - 1)}

\* C9: edges are executed one at a time: at most one handler.query call is in
\* flight, and when the call for an edge is made the records of every edge queried
\* before are stored on it and propagated, and that edge is executed.
C9_OneEdgeAtATime ==
  /\ tq.active <= 1
  /\ tq.active = 1 <=> tq.pc = "awaiting"
  /\ tq.pc = "awaiting" =>
       \A e \in EarlierInvoked :
         /\ tq.qXEdges[e].stored /\ tq.qXEdges[e].propagated /\ tq.qXEdges[e].executed
         /\ e # tq.current

\* the third edge is being queried after the first two were stored and executed
C9_Witness ==
  /\ tq.pc = "awaiting"
  /\ Len(tq.invoked) = MaxQEdges
  /\ \A e \in EarlierInvoked : tq.qXEdges[e].executed /\ tq.qXEdges[e].records > 0

\* query() has returned from inside the loop, for no record got or none kept
ReturnedEarly ==
  /\ tq.pc = "returned"
  /\ Len(tq.logs) > 0
  /\ tq.logs[Len(tq.logs)].type \in {"got0", "kept0"}

\* C10: when the selected edge gets no record, or keeps none, query() returns at
\* once: the edge is not executed, it is the last edge queried, the last log is a
\* WARNING that names it, and there are no results, whatever earlier edges stored.
C10_ZeroRecordsTerminate ==
  /\ (tq.pc = "loop" /\ tq.current # <<>>) =>
       /\ tq.qXEdges[tq.current].executed
       /\ tq.qXEdges[tq.current].records > 0
  /\ ReturnedEarly =>
       /\ ~tq.qXEdges[tq.current].executed
       /\ tq.invoked[Len(tq.invoked)] = tq.current
       /\ tq.logs[Len(tq.logs)] = Log("WARNING", tq.logs[Len(tq.logs)].type, tq.current)
       /\ tq.results = 0 /\ tq.kg = {}
       /\ tq.active = 0
       /\ ~ENABLED QueryNext

\* the second edge kept no record after the first edge stored some
C10_Witness ==
  /\ ReturnedEarly
  /\ tq.logs[Len(tq.logs)].type = "kept0"
  /\ Len(tq.invoked) = 2
  /\ tq.qXEdges[tq.invoked[1]].executed /\ tq.qXEdges[tq.invoked[1]].stored

\* the logs of query() of level WARNING
WarningLogs == {i \in 1..Len(tq.logs) : tq.logs[i].level = "WARNING"}

\* C11: when an execution edge has no MetaKG operation, _edgesSupported adds one
\* WARNING log that names every such edge and query() returns: the batch handler
\* is called for no edge, and there are no results and no knowledge graph.
C11_UnsupportedEdgeTerminates ==
  (tq.graph.valid = "ok" /\ tq.pc \notin {"start", "processed"}
     /\ MissingOps(tq.graph) # {}) =>
    /\ tq.pc = "returned"
    /\ tq.invoked = <<>> /\ tq.active = 0
    /\ tq.results = 0 /\ tq.kg = {}
    /\ Cardinality(WarningLogs) = 1
    /\ \A i \in WarningLogs :
         /\ tq.logs[i].type = "noMetaKGEdges"
         /\ Range(tq.logs[i].edge) = MissingOps(tq.graph)

\* query() has returned for a graph of which two edges have no operation
C11_Witness ==
  /\ tq.pc = "returned"
  /\ Cardinality(MissingOps(tq.graph)) = 2
  /\ WarningLogs # {}

\* C12: an error raised while the query graph is processed reaches the caller as
\* an InvalidQueryGraphError with that name and status code 400; no edge is
\* executed and there are no results.
C12_InvalidQueryGraph ==
  tq.graph.valid # "ok" =>
    /\ tq.pc \in {"start", "threw"}
    /\ tq.pc = "threw" =>
         /\ tq.error.name = "InvalidQueryGraphError"
         /\ tq.error.statusCode = 400
    /\ tq.invoked = <<>> /\ tq.active = 0
    /\ tq.qXEdges = <<>>
    /\ tq.results = 0

\* query() has thrown for a graph whose processing raised an error of another kind
C12_Witness ==
  /\ tq.pc = "threw"
  /\ tq.graph.valid = "other"
  /\ tq.error = InvalidQueryGraphError(DefaultMessage)

\* getResponse(): the workflow, the message with the query graph, the knowledge
\* graph and the assembler's results, and the logs
getResponse(t) ==
  [workflow |-> <<[id |-> "lookup"]>>,
   message |-> [query_graph |-> t.graph, knowledge_graph |-> t.kg, results |-> t.results],
   logs |-> t.logs]

\* C13: after query() has returned, on any path, the logs of the response contain
\* an execution-summary line.
C13_SummaryOnEveryPath ==
  tq.pc = "returned" =>
    \E i \in 1..Len(getResponse(tq).logs) : getResponse(tq).logs[i].type = "summary"

\* C14: no failure other than an invalid query graph escapes query() as an
\* exception: when query() throws, the error is an InvalidQueryGraphError raised
\* while the query graph was processed.
C14_OnlyInvalidGraphEscapes ==
  tq.pc = "threw" =>
    /\ tq.error.name = "InvalidQueryGraphError"
    /\ tq.invoked = <<>>


(***************************************************************************)
(* update(): the results assembler of src/src/query_results.js.            *)
(*   rs  [pc, input, qNodeIDsWithIsSet, unconsolidatedResults, results]    *)
(*   pc       "start" before update(recordsByQEdgeID), "updated" after     *)
(*   input    recordsByQEdgeID: its entries [qEdgeID, connected_to,        *)
(*            records] in the order of its keys                            *)
(*   qNodeIDsWithIsSet   the QNodes found to have is_set                   *)
(*   unconsolidatedResults   the preresults of the traversal               *)
(*   results  this._results                                                *)
(* A record is [inputQNodeID, outputQNodeID, inputPrimaryCurie,            *)
(* outputPrimaryCurie, recordHash, inputIsSet, outputIsSet]: the values    *)
(* the helper's getters return for it.  A JavaScript array is an index     *)
(* into a heap of arrays, so that a push is seen through every reference.  *)
(* The traversal threads st = [heap, ucResults, depth, threw]: depth is    *)
(* the nesting of the calls of _getUnconsolidatedResults, and threw says   *)
(* that an exception is on its way up: the RangeError of a call that found *)
(* the stack exhausted, which every caller passes on.                      *)
(*   pc  is "threw" when update() ended with an exception                  *)
(***************************************************************************)
\* the most records of one QEdge
MaxEdgeRecords == 2
\* the nesting of calls at which the call stack is exhausted
MaxCallDepth == 12

\* the UTF-16 code unit of a character of an identifier
CharCode(c) ==
  CASE c = "&" -> 38 [] c = "-" -> 45 [] c = "0" -> 48 [] c = "1" -> 49 [] c = "2" -> 50
    [] c = "3" -> 51 [] c = "4" -> 52 [] c = "5" -> 53 [] c = "A" -> 65 [] c = "B" -> 66
    [] c = "C" -> 67 [] c = "_" -> 95 [] c = "e" -> 101 [] c = "h" -> 104 [] c = "n" -> 110

RECURSIVE StringLess(_, _)
\* a < b of two strings: by code units, a proper prefix first
StringLess(a, b) ==
  IF Len(b) = 0 THEN FALSE
  ELSE IF Len(a) = 0 THEN TRUE
  ELSE IF a[1] = b[1] THEN StringLess(Tail(a), Tail(b))
  ELSE CharCode(a[1]) < CharCode(b[1])

RECURSIVE InsertString(_, _)
InsertString(sorted, str) ==
  IF Len(sorted) = 0 THEN <<str>>
  ELSE IF StringLess(str, sorted[1]) THEN <<str>> \o sorted
  ELSE <<sorted[1]>> \o InsertString(Tail(sorted), str)

RECURSIVE SortStrings(_)
\* Array.prototype.sort() of an array of strings
SortStrings(arr) ==
  IF Len(arr) = 0 THEN <<>>
  ELSE InsertString(SortStrings(SubSeq(arr, 1, Len(arr) - 1)), arr[Len(arr)])

\* an argument that is not passed, or a variable never assigned
NotGiven == <<>>

\* recordsByQEdgeID[qEdgeID]
EdgeData(recordsByQEdgeID, qEdgeID) ==
  LET i == CHOOSE i \in 1..Len(recordsByQEdgeID) : recordsByQEdgeID[i].qEdgeID = qEdgeID
  IN recordsByQEdgeID[i]

PreresultRecordSwapped(record, qEdgeID) ==
  [inputQNodeID |-> record.inputQNodeID, outputQNodeID |-> record.outputQNodeID,
   inputPrimaryCurie |-> record.outputPrimaryCurie,
   outputPrimaryCurie |-> record.inputPrimaryCurie,
   qEdgeID |-> qEdgeID, recordHash |-> record.recordHash]

\* the item a record adds to a preresult
PreresultRecord(record, qEdgeID) ==
  [inputQNodeID |-> record.inputQNodeID, outputQNodeID |-> record.outputQNodeID,
   inputPrimaryCurie |-> record.inputPrimaryCurie,
   outputPrimaryCurie |-> record.outputPrimaryCurie,
   qEdgeID |-> qEdgeID, recordHash |-> record.recordHash]

MatchOnInputOnly(qNodeIDToMatch, inputQNodeID, outputQNodeID) ==
  IF qNodeIDToMatch \in {inputQNodeID, NotGiven} THEN "input" ELSE "none"

\* which end of the QEdge's records is joined with qNodeIDToMatch: their input
\* (also when there is nothing to match), their output, or neither
MatchingEnd(qNodeIDToMatch, inputQNodeID, outputQNodeID) ==
  IF qNodeIDToMatch \in {inputQNodeID, NotGiven} THEN "input"
  ELSE IF qNodeIDToMatch = outputQNodeID THEN "output"
  ELSE "none"

getInputCurieAtBothEnds(end, record) == record.inputPrimaryCurie

\* the curie of a record at the end that is matched
getMatchingPrimaryCurie(end, record) ==
  IF end = "input" THEN record.inputPrimaryCurie ELSE record.outputPrimaryCurie

getOtherPrimaryCurie(end, record) ==
  IF end = "input" THEN record.outputPrimaryCurie ELSE record.inputPrimaryCurie

RECURSIVE _getUnconsolidatedResults(_, _, _, _, _, _, _)
RECURSIVE ForEachRecord(_, _, _, _, _, _, _, _, _)
RECURSIVE ForEachConnected(_, _, _, _, _, _, _, _)

\* connected_to.forEach: the traversal goes on from each connected QEdge in turn,
\* every call with the same array ucResult
ForEachConnected(recordsByQEdgeID, connected_to, j, edgeCount, st, ucResult, otherQNodeID, otherPrimaryCurie) ==
  IF j > Len(connected_to) \/ st.threw THEN st
  ELSE ForEachConnected(recordsByQEdgeID, connected_to, j + 1, edgeCount,
                        _getUnconsolidatedResults(recordsByQEdgeID, connected_to[j], edgeCount,
                                                  st, ucResult, otherQNodeID,
                                                  otherPrimaryCurie),
                        ucResult, otherQNodeID, otherPrimaryCurie)

\* the forEach over the records that match: the first one is pushed on the
\* caller's array, each later one on a fresh copy of ucResultClone; an array that
\* reaches edgeCount items is pushed on ucResults
ForEachRecord(recordsByQEdgeID, qEdgeID, edgeCount, st, ucResult, ucResultClone, filtered, i, end) ==
  IF i > Len(filtered) \/ st.threw THEN st
  ELSE LET record == filtered[i]
           data == EdgeData(recordsByQEdgeID, qEdgeID)
           first == data.records[1]
           otherQNodeID == IF end = "input" THEN first.outputQNodeID ELSE first.inputQNodeID
           heap1 == IF i # 1 THEN Append(st.heap, ucResultClone) ELSE st.heap
           array == IF i # 1 THEN Len(heap1) ELSE ucResult
           heap2 == [heap1 EXCEPT ![array] = Append(@, PreresultRecord(record, qEdgeID))]
           st2 == [st EXCEPT !.heap = heap2,
                             !.ucResults = IF Len(heap2[array]) = edgeCount
                                           THEN Append(@, array) ELSE @]
           st3 == ForEachConnected(recordsByQEdgeID, data.connected_to, 1, edgeCount, st2,
                                   array, otherQNodeID, getOtherPrimaryCurie(end, record))
       IN ForEachRecord(recordsByQEdgeID, qEdgeID, edgeCount, st3, ucResult, ucResultClone,
                        filtered, i + 1, end)

\* _getUnconsolidatedResults: ucResult is an index of st.heap
_getUnconsolidatedResults(recordsByQEdgeID, qEdgeID, edgeCount, st, ucResult, qNodeIDToMatch, primaryCurieToMatch) ==
  LET data == EdgeData(recordsByQEdgeID, qEdgeID)
      record == data.records[1]
      end == MatchingEnd(qNodeIDToMatch, record.inputQNodeID, record.outputQNodeID)
      Matches(r) == primaryCurieToMatch \in {getMatchingPrimaryCurie(end, r), NotGiven}
      called == [st EXCEPT !.depth = @ + 1]
      returned == IF end = "none" THEN called
                  ELSE ForEachRecord(recordsByQEdgeID, qEdgeID, edgeCount, called, ucResult,
                                     st.heap[ucResult], SelectSeq(data.records, Matches), 1, end)
  IN IF st.threw THEN st
     ELSE IF st.depth >= MaxCallDepth THEN [st EXCEPT !.threw = TRUE]
     ELSE [returned EXCEPT !.depth = st.depth]

_getUniqueNodeIDWithCurie(qNodeIDsWithIsSet, qNodeID, primaryCurie) ==
  qNodeID \o <<"-">> \o primaryCurie

\* _getUniqueNodeID
_getUniqueNodeID(qNodeIDsWithIsSet, qNodeID, primaryCurie) ==
  IF qNodeID \in qNodeIDsWithIsSet THEN qNodeID ELSE qNodeID \o <<"-">> \o primaryCurie

RECURSIVE qNodeIDsWithIsSet(_)
\* the QNodes with is_set, read off the first record of each QEdge
qNodeIDsWithIsSet(recordsByQEdgeID) ==
  IF Len(recordsByQEdgeID) = 0 THEN {}
  ELSE LET record == recordsByQEdgeID[1].records[1]
       IN (IF record.inputIsSet THEN {record.inputQNodeID} ELSE {})
            \cup (IF record.outputIsSet THEN {record.outputQNodeID} ELSE {})
            \cup qNodeIDsWithIsSet(Tail(recordsByQEdgeID))

NoRoot == [initialQEdgeID |-> NotGiven, initialQNodeIDToMatch |-> NotGiven]

RECURSIVE RootAmongConnected(_, _, _, _)
\* connected_to.some: the QEdge is the root when its input QNode is not a QNode of
\* the connected QEdge c, or else when its output QNode is not the output of c
RootAmongConnected(recordsByQEdgeID, pair, j, root) ==
  IF j > Len(pair.connected_to) THEN root
  ELSE LET nextEdge == EdgeData(recordsByQEdgeID, pair.connected_to[j])
           inputQNodeID == pair.records[1].inputQNodeID
           outputQNodeID == pair.records[1].outputQNodeID
           inputQNodeID_1 == nextEdge.records[1].inputQNodeID
           outputQNodeID_1 == nextEdge.records[1].outputQNodeID
       IN IF root.initialQEdgeID # NotGiven
          THEN RootAmongConnected(recordsByQEdgeID, pair, j + 1, root)
          ELSE IF inputQNodeID \notin {inputQNodeID_1, outputQNodeID_1}
          THEN [initialQEdgeID |-> pair.qEdgeID, initialQNodeIDToMatch |-> inputQNodeID]
          ELSE IF outputQNodeID \notin {outputQNodeID_1, outputQNodeID_1}
          THEN [initialQEdgeID |-> pair.qEdgeID, initialQNodeIDToMatch |-> outputQNodeID]
          ELSE RootAmongConnected(recordsByQEdgeID, pair, j + 1, root)

RECURSIVE InitialQEdge(_, _, _)
\* toPairs(recordsByQEdgeID).some: a QEdge connected to no other is noted and the
\* search goes on; it stops at the first QEdge after which a root is known
InitialQEdge(recordsByQEdgeID, i, root) ==
  IF i > Len(recordsByQEdgeID) THEN root
  ELSE LET pair == recordsByQEdgeID[i]
       IN IF Len(pair.connected_to) = 0
          THEN InitialQEdge(recordsByQEdgeID, i + 1,
                            [initialQEdgeID |-> pair.qEdgeID,
                             initialQNodeIDToMatch |-> pair.records[1].inputQNodeID])
          ELSE LET found == RootAmongConnected(recordsByQEdgeID, pair, 1, root)
               IN IF found.initialQEdgeID # NotGiven THEN found
                  ELSE InitialQEdge(recordsByQEdgeID, i + 1, found)

\* the traversal from the root with an empty first preresult; without a root
\* recordsByQEdgeID[undefined] cannot be destructured
Traversal(recordsByQEdgeID) ==
  LET root == InitialQEdge(recordsByQEdgeID, 1, NoRoot)
      st == [heap |-> << <<>> >>, ucResults |-> <<>>, depth |-> 0, threw |-> FALSE]
  IN IF root = NoRoot THEN [st EXCEPT !.threw = TRUE]
     ELSE _getUnconsolidatedResults(recordsByQEdgeID, root.initialQEdgeID,
                                    Len(recordsByQEdgeID), st, 1,
                                    root.initialQNodeIDToMatch, NotGiven)

\* the arrays that ucResults refers to, as they are when the traversal has ended
unconsolidatedResults(recordsByQEdgeID) ==
  LET st == Traversal(recordsByQEdgeID)
  IN [k \in 1..Len(st.ucResults) |-> st.heap[st.ucResults[k]]]

RECURSIVE uniqueNodeIDs(_, _)
\* the ids of the input and the output QNode of each item of the preresult, in order
uniqueNodeIDs(isSet, ucResult) ==
  IF Len(ucResult) = 0 THEN <<>>
  ELSE <<_getUniqueNodeID(isSet, ucResult[1].inputQNodeID, ucResult[1].inputPrimaryCurie),
         _getUniqueNodeID(isSet, ucResult[1].outputQNodeID, ucResult[1].outputPrimaryCurie)>>
         \o uniqueNodeIDs(isSet, Tail(ucResult))

\* Array.from(uniqueNodeIDs).sort().join("_&_")
uniqueResultID(isSet, ucResult) ==
  Join(SortStrings(Unique(uniqueNodeIDs(isSet, ucResult))), <<"_", "&", "_">>)

RECURSIVE GroupEachAlone(_, _)
GroupEachAlone(isSet, ucResults) ==
  IF Len(ucResults) = 0 THEN <<>>
  ELSE Append(GroupEachAlone(isSet, SubSeq(ucResults, 1, Len(ucResults) - 1)),
              [id |-> uniqueResultID(isSet, ucResults[Len(ucResults)]),
               ucResults |-> <<ucResults[Len(ucResults)]>>])

RECURSIVE ucResultsByResultID(_, _)
\* the preresults grouped by uniqueResultID, the groups in the order their ids
\* first occur
ucResultsByResultID(isSet, ucResults) ==
  IF Len(ucResults) = 0 THEN <<>>
  ELSE LET groups == ucResultsByResultID(isSet, SubSeq(ucResults, 1, Len(ucResults) - 1))
           ucResult == ucResults[Len(ucResults)]
           id == uniqueResultID(isSet, ucResult)
       IN IF \E g \in 1..Len(groups) : groups[g].id = id
          THEN [g \in 1..Len(groups) |->
                  IF groups[g].id = id
                  THEN [groups[g] EXCEPT !.ucResults = Append(@, ucResult)]
                  ELSE groups[g]]
          ELSE Append(groups, [id |-> id, ucResults |-> <<ucResult>>])

\* one item of spread(zip)(ucResults): the items at one position of the preresults
\* of a group, consolidated
consolidatedPreresultRecord(ucResultRecords) ==
  [inputQNodeID |-> ucResultRecords[1].inputQNodeID,
   outputQNodeID |-> ucResultRecords[1].outputQNodeID,
   inputPrimaryCuries |->
     Unique([k \in 1..Len(ucResultRecords) |-> ucResultRecords[k].inputPrimaryCurie]),
   outputPrimaryCuries |->
     Unique([k \in 1..Len(ucResultRecords) |-> ucResultRecords[k].outputPrimaryCurie]),
   qEdgeID |-> ucResultRecords[1].qEdgeID,
   recordHashes |-> Unique([k \in 1..Len(ucResultRecords) |-> ucResultRecords[k].recordHash])]

\* the preresults of a traversal have edgeCount items each, so zip pairs the
\* items position by position
consolidatedResults(groups) ==
  [g \in 1..Len(groups) |->
     [pos \in 1..Len(groups[g].ucResults[1]) |->
        consolidatedPreresultRecord([k \in 1..Len(groups[g].ucResults) |->
                                       groups[g].ucResults[k][pos]])]]

\* obj[key] = val on an object modelled as a function
SetProperty(obj, key, val) ==
  [k \in DOMAIN obj \cup {key} |-> IF k = key THEN val ELSE obj[k]]

\* Array.from(set).map(id => ({id})): the ids of the bindings of one list, in the
\* order the ids were added to the set
Bindings(ids) == ids

RECURSIVE FormatResult(_, _)
\* cResult.forEach on a result: each item sets the bindings of its input QNode,
\* of its output QNode and of its QEdge
FormatResult(cResult, result) ==
  IF Len(cResult) = 0 THEN result
  ELSE LET c == cResult[1]
           nb == SetProperty(SetProperty(result.node_bindings, c.inputQNodeID,
                                         Bindings(c.inputPrimaryCuries)),
                             c.outputQNodeID, Bindings(c.outputPrimaryCuries))
           eb == SetProperty(result.edge_bindings, c.qEdgeID, Bindings(c.recordHashes))
       IN FormatResult(Tail(cResult),
                       [result EXCEPT !.node_bindings = nb, !.edge_bindings = eb])

\* this._results of update()
Results(isSet, ucResults) ==
  LET consolidated == consolidatedResults(ucResultsByResultID(isSet, ucResults))
  IN [g \in 1..Len(consolidated) |->
        FormatResult(consolidated[g],
                     [node_bindings |-> <<>>, edge_bindings |-> <<>>, score |-> 1])]

(***************************************************************************)
(* The inputs of update(): tree-shaped query graphs, the records of a      *)
(* QEdge all in one direction, each with a hash of its own.                *)
(***************************************************************************)
QN(i) == <<"n", Digit(i)>>
QE(i) == <<"e", "0", Digit(i)>>
CurieA == <<"A">>
CurieB == <<"B">>

\* a QEdge of a query graph: its id, its two QNodes, the QEdges it shares one with
ShapeEdge(i, a, b, connected) ==
  [id |-> QE(i), index |-> i, a |-> QN(a), b |-> QN(b),
   connected_to |-> [k \in 1..Len(connected) |-> QE(connected[k])]]

OneEdge == <<ShapeEdge(1, 1, 2, <<>>)>>
Chain2 == <<ShapeEdge(1, 1, 2, <<2>>), ShapeEdge(2, 2, 3, <<1>>)>>
Chain3 ==
  <<ShapeEdge(1, 1, 2, <<2>>), ShapeEdge(2, 2, 3, <<1, 3>>), ShapeEdge(3, 3, 4, <<2>>)>>
Chain3MiddleFirst ==
  <<ShapeEdge(2, 2, 3, <<1, 3>>), ShapeEdge(1, 1, 2, <<2>>), ShapeEdge(3, 3, 4, <<2>>)>>
Star ==
  <<ShapeEdge(1, 1, 2, <<2, 3>>), ShapeEdge(2, 2, 3, <<1, 3>>), ShapeEdge(3, 2, 4, <<1, 2>>)>>

\* the curies the records have at a QNode: two at the QNode the QEdges share, and
\* in the short graphs at n3
NodeCuries(shape, qNodeID) ==
  IF qNodeID = QN(2) \/ (Len(shape) <= 2 /\ qNodeID = QN(3)) THEN {CurieA, CurieB}
  ELSE {CurieA}

\* for each QEdge whether its records have QNode b as input: every choice in the
\* short graphs
Directions(shape) ==
  IF Len(shape) <= 2 THEN [1..Len(shape) -> BOOLEAN] ELSE {[i \in 1..Len(shape) |-> FALSE]}

\* the hash of the k-th of n records of a QEdge: ascending or descending along the list
RecordHash(edge, k, n, descending) ==
  <<"h", Digit(edge.index), Digit(IF descending THEN n + 1 - k ELSE k)>>

ResultRecord(edge, reverse, curies, hash, isSet) ==
  LET inputQNodeID == IF reverse THEN edge.b ELSE edge.a
      outputQNodeID == IF reverse THEN edge.a ELSE edge.b
  IN [inputQNodeID |-> inputQNodeID, outputQNodeID |-> outputQNodeID,
      inputPrimaryCurie |-> IF reverse THEN curies[2] ELSE curies[1],
      outputPrimaryCurie |-> IF reverse THEN curies[1] ELSE curies[2],
      recordHash |-> hash,
      inputIsSet |-> inputQNodeID \in isSet, outputIsSet |-> outputQNodeID \in isSet]

\* the lists of 1..MaxEdgeRecords records of a QEdge
RecordLists(shape, edge, reverse, isSet, descending) ==
  {[k \in 1..Len(curies) |->
      ResultRecord(edge, reverse, curies[k], RecordHash(edge, k, Len(curies), descending),
                   isSet)] :
     curies \in UNION {[1..n -> NodeCuries(shape, edge.a) \X NodeCuries(shape, edge.b)] :
                         n \in 1..MaxEdgeRecords}}

RECURSIVE OrganizedRecords(_, _, _, _, _)
\* the values manager.getOrganizedRecords() can have for the first n QEdges
OrganizedRecords(shape, n, reverse, isSet, descending) ==
  IF n = 0 THEN {<<>>}
  ELSE {Append(front, [qEdgeID |-> shape[n].id, connected_to |-> shape[n].connected_to,
                       records |-> records]) :
          front \in OrganizedRecords(shape, n - 1, reverse, isSet, descending),
          records \in RecordLists(shape, shape[n], reverse[n], isSet, descending)}

\* the query graphs of the inputs
Shapes == {OneEdge, Chain2, Chain3, Chain3MiddleFirst, Star}

\* a QueryResult after its constructor, and the argument update() will get
ResultsInit ==
  /\ KeyIdle
  /\ CacheIdle
  /\ QueryIdle
  /\ CallIdle
  /\ \E shape \in Shapes :
       \E reverse \in Directions(shape), isSet \in {{}, {QN(2)}}, descending \in BOOLEAN :
         \E input \in OrganizedRecords(shape, Len(shape), reverse, isSet, descending) :
           rs = [pc |-> "start", input |-> input, qNodeIDsWithIsSet |-> {},
                 unconsolidatedResults |-> <<>>, results |-> <<>>]

\* update(recordsByQEdgeID)
\* zip pads the shorter preresults of a group with undefined, which the
\* consolidation cannot destructure
ZipThrows(groups) ==
  \E g \in 1..Len(groups) : \E k \in 1..Len(groups[g].ucResults) :
    Len(groups[g].ucResults[k]) # Len(groups[g].ucResults[1])

\* update(recordsByQEdgeID); this._results is [] from its first statement on
Update ==
  /\ rs.pc = "start"
  /\ LET isSet == qNodeIDsWithIsSet(rs.input)
         ucResults == unconsolidatedResults(rs.input)
     IN rs' = IF \/ Traversal(rs.input).threw
                 \/ ZipThrows(ucResultsByResultID(isSet, ucResults))
              THEN [rs EXCEPT !.pc = "threw", !.qNodeIDsWithIsSet = isSet,
                              !.unconsolidatedResults = ucResults]
              ELSE [rs EXCEPT !.pc = "updated", !.qNodeIDsWithIsSet = isSet,
                              !.unconsolidatedResults = ucResults,
                              !.results = Results(isSet, ucResults)]
  /\ UNCHANGED <<callVars, keyVars, cacheVars, queryVars>>

ResultsNext == Update

SpecResults == ResultsInit /\ [][ResultsNext]_vars

(***************************************************************************)
(* Properties of the results.                                              *)
(***************************************************************************)
\* the QEdge ids of the input
InputQEdgeIDs == {rs.input[i].qEdgeID : i \in 1..Len(rs.input)}

\* the records of QEdge qEdgeID that result binds
BoundRecords(result, qEdgeID) ==
  LET records == EdgeData(rs.input, qEdgeID).records
  IN {records[i] : i \in {k \in 1..Len(records) :
                            records[k].recordHash \in Range(result.edge_bindings[qEdgeID])}}

\* curie is the primary curie at qNodeID of the record
CurieAt(record, qNodeID, curie) ==
  \/ record.inputQNodeID = qNodeID /\ record.inputPrimaryCurie = curie
  \/ record.outputQNodeID = qNodeID /\ record.outputPrimaryCurie = curie

\* C15: soundness of the results of update(): every id under edge_bindings[q] is
\* the hash of an input record of QEdge q, and every id under node_bindings[n] is
\* the primary curie at QNode n of a record the result binds.
C15_Soundness ==
  rs.pc = "updated" =>
    \A i \in 1..Len(rs.results) :
      LET result == rs.results[i]
      IN /\ DOMAIN result.edge_bindings \subseteq InputQEdgeIDs
         /\ \A qEdgeID \in DOMAIN result.edge_bindings :
              \A hash \in Range(result.edge_bindings[qEdgeID]) :
                \E k \in 1..Len(EdgeData(rs.input, qEdgeID).records) :
                  EdgeData(rs.input, qEdgeID).records[k].recordHash = hash
         /\ \A qNodeID \in DOMAIN result.node_bindings :
              \A curie \in Range(result.node_bindings[qNodeID]) :
                \E qEdgeID \in DOMAIN result.edge_bindings :
                  \E record \in BoundRecords(result, qEdgeID) :
                    CurieAt(record, qNodeID, curie)

\* a result of a three-edge graph that binds two records of a QEdge and two
\* curies at a QNode
C15_Witness ==
  /\ rs.pc = "updated"
  /\ \E i \in 1..Len(rs.results) :
       /\ DOMAIN rs.results[i].edge_bindings = InputQEdgeIDs
       /\ Len(rs.input) = 3
       /\ \E qEdgeID \in InputQEdgeIDs : Len(rs.results[i].edge_bindings[qEdgeID]) = 2
       /\ \E qNodeID \in DOMAIN rs.results[i].node_bindings :
            Len(rs.results[i].node_bindings[qNodeID]) = 2

\* the choices of one record for each QEdge of the input
RecordChoices ==
  {choice \in [1..Len(rs.input) -> 1..MaxEdgeRecords] :
     \A i \in 1..Len(rs.input) : choice[i] <= Len(rs.input[i].records)}

ChosenRecord(choice, i) == rs.input[i].records[choice[i]]

\* the QNodes of a record
QNodesOf(record) == {record.inputQNodeID, record.outputQNodeID}

\* the primary curie of the record at one of its QNodes
PrimaryCurieAt(record, qNodeID) ==
  IF record.inputQNodeID = qNodeID THEN record.inputPrimaryCurie
  ELSE record.outputPrimaryCurie

\* the chosen records agree on the curie at every QNode two of them share
Agree(choice) ==
  \A i, j \in 1..Len(rs.input) :
    \A qNodeID \in QNodesOf(ChosenRecord(choice, i)) \cap QNodesOf(ChosenRecord(choice, j)) :
      PrimaryCurieAt(ChosenRecord(choice, i), qNodeID)
        = PrimaryCurieAt(ChosenRecord(choice, j), qNodeID)

\* the result binds, for every QEdge, the record chosen for it
Represents(result, choice) ==
  \A i \in 1..Len(rs.input) :
    /\ rs.input[i].qEdgeID \in DOMAIN result.edge_bindings
    /\ ChosenRecord(choice, i).recordHash \in Range(result.edge_bindings[rs.input[i].qEdgeID])

\* C16: completeness on tree-shaped query graphs: each choice of one record per
\* QEdge whose records agree on the curie at every shared QNode is represented in
\* exactly one result of update().
C16_CompleteOnTrees ==
  rs.pc = "updated" =>
    \A choice \in RecordChoices :
      Agree(choice) =>
        Cardinality({i \in 1..Len(rs.results) : Represents(rs.results[i], choice)}) = 1

\* the consolidation keys of the preresults
ResultIDs ==
  {uniqueResultID(rs.qNodeIDsWithIsSet, rs.unconsolidatedResults[k]) :
     k \in 1..Len(rs.unconsolidatedResults)}

\* the items of the preresults whose consolidation key is id
ItemsOfID(id) ==
  UNION {Range(rs.unconsolidatedResults[k]) :
           k \in {j \in 1..Len(rs.unconsolidatedResults) :
                    uniqueResultID(rs.qNodeIDsWithIsSet, rs.unconsolidatedResults[j]) = id}}

\* the bindings of result are those of the items, and of no other
BindsExactly(result, items) ==
  /\ DOMAIN result.edge_bindings = {item.qEdgeID : item \in items}
  /\ \A qEdgeID \in DOMAIN result.edge_bindings :
       Range(result.edge_bindings[qEdgeID])
         = {item.recordHash : item \in {it \in items : it.qEdgeID = qEdgeID}}
  /\ DOMAIN result.node_bindings
       = {item.inputQNodeID : item \in items} \cup {item.outputQNodeID : item \in items}
  /\ \A qNodeID \in DOMAIN result.node_bindings :
       Range(result.node_bindings[qNodeID])
         = {item.inputPrimaryCurie : item \in {it \in items : it.inputQNodeID = qNodeID}}
             \cup {item.outputPrimaryCurie : item \in {it \in items : it.outputQNodeID = qNodeID}}

\* C17: consolidation law: update() emits exactly one result per distinct
\* consolidation key; the result of a key holds the bindings of all the preresults
\* with that key and of no preresult with another key.
C17_ConsolidationLaw ==
  rs.pc = "updated" =>
    /\ Len(rs.results) = Cardinality(ResultIDs)
    /\ \A id \in ResultIDs :
         Cardinality({i \in 1..Len(rs.results) : BindsExactly(rs.results[i], ItemsOfID(id))}) = 1

\* four preresults with two keys give two results
C17_Witness ==
  /\ rs.pc = "updated"
  /\ Len(rs.unconsolidatedResults) = 4
  /\ Cardinality(ResultIDs) = 2
  /\ Len(rs.results) = 2

\* the QNodes the query graph marks is_set, as the records of the input say
MarkedIsSet ==
  UNION {{r.inputQNodeID : r \in {x \in Range(rs.input[i].records) : x.inputIsSet}}
           \cup {r.outputQNodeID : r \in {x \in Range(rs.input[i].records) : x.outputIsSet}} :
         i \in 1..Len(rs.input)}

\* the curies a preresult has at a QNode
CuriesAt(ucResult, qNodeID) ==
  {item.inputPrimaryCurie : item \in {it \in Range(ucResult) : it.inputQNodeID = qNodeID}}
    \cup {item.outputPrimaryCurie : item \in {it \in Range(ucResult) : it.outputQNodeID = qNodeID}}

\* the curies a preresult assigns to the QNodes that are not marked is_set
Assignment(ucResult) ==
  [qNodeID \in ({item.inputQNodeID : item \in Range(ucResult)}
                  \cup {item.outputQNodeID : item \in Range(ucResult)}) \ MarkedIsSet |->
     CuriesAt(ucResult, qNodeID)]

Assignments == {Assignment(rs.unconsolidatedResults[k]) : k \in 1..Len(rs.unconsolidatedResults)}

\* the preresults with one assignment
Merged(assignment) ==
  {ucResult \in Range(rs.unconsolidatedResults) : Assignment(ucResult) = assignment}

\* the result binds the assignment at the QNodes not marked is_set, and at each
\* marked QNode every curie the merged preresults have there
ResultOfAssignment(result, assignment) ==
  /\ \A qNodeID \in DOMAIN assignment :
       /\ qNodeID \in DOMAIN result.node_bindings
       /\ Range(result.node_bindings[qNodeID]) = assignment[qNodeID]
       /\ Len(result.node_bindings[qNodeID]) = 1
  /\ \A qNodeID \in DOMAIN result.node_bindings \ DOMAIN assignment :
       /\ qNodeID \in MarkedIsSet
       /\ Range(result.node_bindings[qNodeID])
            = UNION {CuriesAt(ucResult, qNodeID) : ucResult \in Merged(assignment)}
       /\ Len(result.node_bindings[qNodeID])
            = Cardinality(Range(result.node_bindings[qNodeID]))

\* C18: is_set semantics: the number of results is the number of distinct curie
\* assignments to the QNodes not marked is_set among the preresults, and in each
\* result the bindings of a QNode marked is_set are the union of its curies over
\* the preresults merged into the result.
C18_IsSetSemantics ==
  rs.pc = "updated" =>
    /\ Len(rs.results) = Cardinality(Assignments)
    /\ \A assignment \in Assignments :
         Cardinality({i \in 1..Len(rs.results) :
                        ResultOfAssignment(rs.results[i], assignment)}) = 1

\* two diseases on the is_set middle QNode of a two-edge chain: one result with
\* both bindings
C18_Witness ==
  /\ rs.pc = "updated"
  /\ Len(rs.input) = 2
  /\ MarkedIsSet = {QN(2)}
  /\ Len(rs.unconsolidatedResults) = 2
  /\ Len(rs.results) = 1
  /\ Range(rs.results[1].node_bindings[QN(2)]) = {CurieA, CurieB}

\* the chain n1-e01-n2-e02-n3 with the records of e01 from n1 to n2 and the
\* records of e02 from n3 to n2
OppositeDirectionChain ==
  /\ Len(rs.input) = 2
  /\ rs.input[1].qEdgeID = QE(1) /\ rs.input[2].qEdgeID = QE(2)
  /\ \A r \in Range(rs.input[1].records) : r.inputQNodeID = QN(1) /\ r.outputQNodeID = QN(2)
  /\ \A s \in Range(rs.input[2].records) : s.inputQNodeID = QN(3) /\ s.outputQNodeID = QN(2)

\* the result binds n1, n2 and n3 to the curies of r and s and both QEdges to them
BindsPair(result, r, s) ==
  /\ DOMAIN result.node_bindings = {QN(1), QN(2), QN(3)}
  /\ r.inputPrimaryCurie \in Range(result.node_bindings[QN(1)])
  /\ r.outputPrimaryCurie \in Range(result.node_bindings[QN(2)])
  /\ s.inputPrimaryCurie \in Range(result.node_bindings[QN(3)])
  /\ DOMAIN result.edge_bindings = {QE(1), QE(2)}
  /\ r.recordHash \in Range(result.edge_bindings[QE(1)])
  /\ s.recordHash \in Range(result.edge_bindings[QE(2)])

\* a preresult made of r and s
JoinsPair(ucResult, r, s) ==
  {item.recordHash : item \in Range(ucResult)} = {r.recordHash, s.recordHash}

\* C19: a join across a QEdge recorded in the opposite direction: in the chain
\* n1-e01-n2-e02-n3 whose e02 records have n2 as output and n3 as input, update()
\* joins on n2: every e01 record and e02 record with the same curie at n2 are
\* joined and bound in a result, and records that disagree at n2 are never joined
\* (nor bound in one result, unless n2 is marked is_set and results are merged).
C19_JoinAcrossOppositeDirection ==
  (rs.pc = "updated" /\ OppositeDirectionChain) =>
    \A r \in Range(rs.input[1].records), s \in Range(rs.input[2].records) :
      IF r.outputPrimaryCurie = s.outputPrimaryCurie
      THEN /\ \E k \in 1..Len(rs.unconsolidatedResults) :
                JoinsPair(rs.unconsolidatedResults[k], r, s)
           /\ \E i \in 1..Len(rs.results) : BindsPair(rs.results[i], r, s)
      ELSE /\ \A k \in 1..Len(rs.unconsolidatedResults) :
                ~JoinsPair(rs.unconsolidatedResults[k], r, s)
           /\ MarkedIsSet = {} => \A i \in 1..Len(rs.results) : ~BindsPair(rs.results[i], r, s)

\* e02 is recorded from n3 to n2; one pair of records agrees at n2 and is bound
\* in a result, another pair disagrees
C19_Witness ==
  /\ rs.pc = "updated"
  /\ OppositeDirectionChain
  /\ MarkedIsSet = {}
  /\ \E r \in Range(rs.input[1].records), s \in Range(rs.input[2].records) :
       /\ r.outputPrimaryCurie = s.outputPrimaryCurie
       /\ \E i \in 1..Len(rs.results) : BindsPair(rs.results[i], r, s)
  /\ \E r \in Range(rs.input[1].records), s \in Range(rs.input[2].records) :
       r.outputPrimaryCurie # s.outputPrimaryCurie

\* the ids of a list of bindings are in ascending order
Ascending(ids) == \A k \in 1..(Len(ids) - 1) : StringLess(ids[k], ids[k + 1])

\* C20: within every result of update() each node_bindings list is in ascending
\* order of curie and each edge_bindings list in ascending order of record hash,
\* whatever the order of the input records.
C20_BindingsSorted ==
  rs.pc = "updated" =>
    \A i \in 1..Len(rs.results) :
      /\ \A qNodeID \in DOMAIN rs.results[i].node_bindings :
           Ascending(rs.results[i].node_bindings[qNodeID])
      /\ \A qEdgeID \in DOMAIN rs.results[i].edge_bindings :
           Ascending(rs.results[i].edge_bindings[qEdgeID])


(***************************************************************************)
(* Order independence of update().                                         *)
(***************************************************************************)
\* every order of the items of a list
Orders(s) ==
  {[i \in 1..Len(s) |-> s[f[i]]] :
     f \in {g \in [1..Len(s) -> 1..Len(s)] : \A a, b \in 1..Len(s) : g[a] = g[b] => a = b}}

RECURSIVE RecordOrders(_)
\* the same QEdges in the same order, each with its records in any order
RecordOrders(input) ==
  IF Len(input) = 0 THEN {<<>>}
  ELSE {<<[input[1] EXCEPT !.records = r]>> \o rest :
          r \in Orders(input[1].records), rest \in RecordOrders(Tail(input))}

\* the same records per QEdge under every order of the keys and of the records
Reorderings(input) == UNION {Orders(p) : p \in RecordOrders(input)}

\* what update(input) leaves in this._results
ResultsOf(input) ==
  LET isSet == qNodeIDsWithIsSet(input)
      ucResults == unconsolidatedResults(input)
  IN IF Traversal(input).threw \/ ZipThrows(ucResultsByResultID(isSet, ucResults))
     THEN <<>> ELSE Results(isSet, ucResults)

\* results as a set, each one as the sets of ids it binds to its QNodes and QEdges
ResultSet(results) ==
  {[node_bindings |-> [n \in DOMAIN results[k].node_bindings |->
                         Range(results[k].node_bindings[n])],
    edge_bindings |-> [e \in DOMAIN results[k].edge_bindings |->
                         Range(results[k].edge_bindings[e])]] : k \in 1..Len(results)}

\* C21: the set of results of update() is the same for every order of the
\* records inside a QEdge's list and every order of the QEdge keys
C21_OrderIndependence ==
  rs.pc = "updated" =>
    \A other \in Reorderings(rs.input) : ResultSet(ResultsOf(other)) = ResultSet(rs.results)


(***************************************************************************)
(* The root of the traversal.                                              *)
(***************************************************************************)
\* the two QNodes of a QEdge, read off its first record
EndsOfQEdge(pair) == {pair.records[1].inputQNodeID, pair.records[1].outputQNodeID}

\* C26: with more than one QEdge, update() starts the traversal at a QEdge
\* and at one of that QEdge's QNodes that is on no other QEdge
C26_RootIsLeaf ==
  (rs.pc # "start" /\ Len(rs.input) > 1) =>
    LET root == InitialQEdge(rs.input, 1, NoRoot)
    IN /\ root # NoRoot
       /\ root.initialQNodeIDToMatch \in EndsOfQEdge(EdgeData(rs.input, root.initialQEdgeID))
       /\ \A i \in 1..Len(rs.input) :
            rs.input[i].qEdgeID # root.initialQEdgeID
              => root.initialQNodeIDToMatch \notin EndsOfQEdge(rs.input[i])


(***************************************************************************)
(* update() on query graphs that are not trees: two QEdges between the     *)
(* same two QNodes, and three QEdges in a cycle.                           *)
(***************************************************************************)
Parallel == <<ShapeEdge(1, 1, 2, <<2>>), ShapeEdge(2, 1, 2, <<1>>)>>
Triangle ==
  <<ShapeEdge(1, 1, 2, <<2, 3>>), ShapeEdge(2, 2, 3, <<1, 3>>), ShapeEdge(3, 3, 1, <<1, 2>>)>>

CyclicShapes == {Parallel, Triangle}

CyclicInit ==
  /\ KeyIdle /\ CacheIdle /\ QueryIdle /\ CallIdle
  /\ \E shape \in CyclicShapes :
       \E reverse \in Directions(shape), isSet \in {{}, {QN(2)}}, descending \in BOOLEAN :
         \E input \in OrganizedRecords(shape, Len(shape), reverse, isSet, descending) :
           rs = [pc |-> "start", input |-> input, qNodeIDsWithIsSet |-> {},
                 unconsolidatedResults |-> <<>>, results |-> <<>>]

SpecCyclic == CyclicInit /\ [][ResultsNext]_vars

\* the QEdges of the items of a preresult are pairwise different
DistinctQEdges(ucResult) ==
  \A a, b \in 1..Len(ucResult) : ucResult[a].qEdgeID = ucResult[b].qEdgeID => a = b

\* C27: the enumeration of the preresults ends, and no preresult it builds
\* holds the same QEdge twice, also when connected_to has a cycle or two QEdges
\* join the same two QNodes
C27_EnumerationTerminates ==
  (rs.pc # "start" /\ InitialQEdge(rs.input, 1, NoRoot) # NoRoot) =>
    LET st == Traversal(rs.input)
    IN /\ ~st.threw
       /\ \A a \in 1..Len(st.heap) : DistinctQEdges(st.heap[a])


(***************************************************************************)
(* The preresults handed to consolidation.                                 *)
(***************************************************************************)
\* the items of a preresult carry the same curie at every QNode two of them share
ItemsAgree(ucResult) ==
  \A a, b \in 1..Len(ucResult) :
    \A qNodeID \in QNodesOf(ucResult[a]) \cap QNodesOf(ucResult[b]) :
      PrimaryCurieAt(ucResult[a], qNodeID) = PrimaryCurieAt(ucResult[b], qNodeID)

TerminatedEarly ==
  /\ tq.pc \in {"returned", "threw"}
  /\ ~(Len(tq.logs) > 0 /\ tq.logs[Len(tq.logs)].type = "apis")

\* C22: the knowledge graph holds only nodes and edges that the assembled
\* results bind; it is filled once, by the step that assembles the results,
\* prunes the graph and notifies, and it is empty whenever query() has
\* terminated early
C22_KnowledgeGraphOfResults ==
  /\ [](/\ tq.kg \subseteq tq.bound
        /\ TerminatedEarly => tq.kg = {}
        /\ tq.pc \notin {"returned", "threw"} => tq.kg = {})
  /\ [][tq'.kg # tq.kg =>
          /\ tq.kg = {} /\ tq.pc = "loop" /\ EdgesNotExecuted(tq) = {}
          /\ tq'.pc = "returned" /\ tq'.results > 0]_vars

\* query() has assembled results that bind some but not all of the records, and
\* the knowledge graph holds the bound ones only
C22_Witness ==
  /\ tq.pc = "returned"
  /\ tq.results > 0
  /\ tq.kg # {}
  /\ tq.kg # GraphOfRecords(tq)


(***************************************************************************)
(* Termination of the execution loop of query().  The loop goes on as soon *)
(* as the awaited handler.query has settled, so the steps of query() are   *)
(* taken under weak fairness.                                              *)
(***************************************************************************)
SpecQueryFair == SpecQuery /\ WF_vars(QueryNext)

\* one turn of the loop, from the settling of handler.query on
LoopTurn ==
  tq.pc = "awaiting" =>
    \/ tq'.pc \in {"returned", "threw"}
    \/ /\ tq'.pc = "loop"
       /\ ~tq.qXEdges[tq.current].executed
       /\ EdgesNotExecuted(tq') = EdgesNotExecuted(tq) \ {tq.current}
       /\ tq'.qXEdges[tq.current].stored
       /\ tq'.qXEdges[tq.current].records > 0

\* C29: the execution loop of query() terminates: each turn either ends
\* query() or marks one edge executed that was not, an edge is marked executed
\* only after its records were stored and at least one was kept, and the batch
\* handler is invoked at most once per execution edge
C29_LoopTerminates ==
  /\ <>(tq.pc \in {"returned", "threw"})
  /\ [][LoopTurn]_vars
  /\ [](\A a, b \in 1..Len(tq.invoked) : tq.invoked[a] = tq.invoked[b] => a = b)
  /\ [](\A e \in DOMAIN tq.qXEdges :
          tq.qXEdges[e].executed => tq.qXEdges[e].stored /\ e \in Range(tq.invoked))

\* query() has returned after the loop executed every one of MaxQEdges edges
C29_Witness ==
  /\ tq.pc = "returned"
  /\ Len(tq.invoked) = MaxQEdges
  /\ EdgesNotExecuted(tq) = {}
  /\ tq.results > 0


(***************************************************************************)
(* The input curies of the cache key.                                      *)
(***************************************************************************)
\* getInputNode: the node the edge is executed from
getInputNode(e) == IF e.reverse THEN e.object ELSE e.subject

\* C30: the input curies that enter the cache key are the curies of the
\* edge's input node in execution direction, the subject's when the edge is
\* not reversed and the object's when it is, as a list
C30_InputCurieFollowsDirection ==
  kOut.done =>
    /\ getCurie(getInputNode(kIn.edgeA)).defined
         => kOut.inputA = getCurie(getInputNode(kIn.edgeA)).ids
    /\ getCurie(getInputNode(kIn.edgeB)).defined
         => kOut.inputB = getCurie(getInputNode(kIn.edgeB)).ids


(***************************************************************************)
(* setQueryGraph of src/src/index.js.                                      *)
(*   call  [arg, outs]: the query graph given to the first call, and the   *)
(*         value of this.queryGraph after each call; a later call is given *)
(*         what the call before it left                                    *)
(* A query graph is [nodes, edges]; a node is a record with the field ids  *)
(* and, when it has the property, the field categories.                    *)
(***************************************************************************)
\* the most categories of a node of the query graph
MaxCategories == 2
\* the most calls of setQueryGraph in a row
MaxCalls == 2

BiolinkProtein == "biolink:Protein"
BiolinkGene == "biolink:Gene"
BiolinkDisease == "biolink:Disease"

\* Array.prototype.includes
ArrayIncludes(arr, x) == \E i \in 1..Len(arr) : arr[i] = x

NormalizeProteinAlways(currentNode) ==
  IF "categories" \in DOMAIN currentNode
       /\ ArrayIncludes(currentNode.categories, BiolinkProtein)
  THEN [currentNode EXCEPT !.categories = Append(@, BiolinkGene)]
  ELSE currentNode

\* the body of the loop over the nodes: a node with the property categories
\* that includes Protein and not Gene has Gene pushed on it
NormalizeNode(currentNode) ==
  IF "categories" \in DOMAIN currentNode
       /\ ArrayIncludes(currentNode.categories, BiolinkProtein)
       /\ ~ArrayIncludes(currentNode.categories, BiolinkGene)
  THEN [currentNode EXCEPT !.categories = Append(@, BiolinkGene)]
  ELSE currentNode

\* setQueryGraph: this.queryGraph afterwards
setQueryGraph(queryGraph) ==
  [queryGraph EXCEPT !.nodes = [nodeId \in DOMAIN @ |-> NormalizeNode(@[nodeId])]]

\* the nodes a query graph can have
InputNodes ==
  {[ids |-> <<"X">>]}
    \cup {[ids |-> <<"X">>, categories |-> c] :
            c \in SeqsUpTo({BiolinkProtein, BiolinkGene, BiolinkDisease}, MaxCategories)}

InputQueryGraphs ==
  {[nodes |-> nodes, edges |-> edges] :
     nodes \in [{"n0"} -> InputNodes] \cup [{"n0", "n1"} -> InputNodes],
     edges \in {<<>>, <<[subject |-> "n0", object |-> "n1", predicates |-> <<"biolink:related_to">>]>>}}

SetQueryGraphInit ==
  /\ KeyIdle /\ CacheIdle /\ QueryIdle /\ ResultsIdle
  /\ \E queryGraph \in InputQueryGraphs : call = [arg |-> queryGraph, outs |-> <<>>]

SetQueryGraph ==
  /\ Len(call.outs) < MaxCalls
  /\ call' = [call EXCEPT !.outs = Append(@, setQueryGraph(IF Len(call.outs) = 0 THEN call.arg
                                                            ELSE call.outs[Len(call.outs)]))]
  /\ UNCHANGED <<keyVars, cacheVars, queryVars, resultVars>>

SetQueryGraphNext == SetQueryGraph

SpecSetQueryGraph == SetQueryGraphInit /\ [][SetQueryGraphNext]_vars

\* the node lists Protein and does not list Gene
ProteinWithoutGene(node) ==
  /\ "categories" \in DOMAIN node
  /\ BiolinkProtein \in Range(node.categories)
  /\ BiolinkGene \notin Range(node.categories)

\* after is before with Gene added to the categories and nothing else changed
GeneAdded(before, after) ==
  /\ DOMAIN after = DOMAIN before
  /\ \A field \in DOMAIN before \ {"categories"} : after[field] = before[field]
  /\ Len(after.categories) = Len(before.categories) + 1
  /\ SubSeq(after.categories, 1, Len(before.categories)) = before.categories
  /\ after.categories[Len(after.categories)] = BiolinkGene

\* C23: setQueryGraph adds Gene to the categories of exactly the nodes that
\* list Protein without Gene and changes no other node, edge or field; a
\* second application to its own output changes nothing
C23_GeneAddedToProteinNodes ==
  /\ Len(call.outs) >= 1 =>
       /\ DOMAIN call.outs[1] = DOMAIN call.arg
       /\ call.outs[1].edges = call.arg.edges
       /\ DOMAIN call.outs[1].nodes = DOMAIN call.arg.nodes
       /\ \A nodeId \in DOMAIN call.arg.nodes :
            IF ProteinWithoutGene(call.arg.nodes[nodeId])
            THEN GeneAdded(call.arg.nodes[nodeId], call.outs[1].nodes[nodeId])
            ELSE call.outs[1].nodes[nodeId] = call.arg.nodes[nodeId]
  /\ Len(call.outs) >= 2 => call.outs[2] = call.outs[1]

\* setQueryGraph was applied twice to a graph with a node that lists Protein
\* without Gene and a node left alone that lists both, or has no categories
C23_Witness ==
  /\ Len(call.outs) = 2
  /\ \E a, b \in DOMAIN call.arg.nodes :
       /\ ProteinWithoutGene(call.arg.nodes[a])
       /\ Len(call.arg.nodes[a].categories) = 2
       /\ ~ProteinWithoutGene(call.arg.nodes[b])
       /\ \/ "categories" \notin DOMAIN call.arg.nodes[b]
          \/ BiolinkProtein \in Range(call.arg.nodes[b].categories)


(***************************************************************************)
(* _createAttributes of src/src/graph/knowledge_graph.js.                  *)
(*   call  [arg, outs]: the kgEdge, and the attributes returned for it     *)
(* A kgEdge is [apis, sources, inforesCuries, publications, attributes]:   *)
(* apis a set, the next three the items of a Set in insertion order, and   *)
(* attributes the object's own properties [key, value] in the order for-in *)
(* visits them.  A property value is [null, items]: null, or else an       *)
(* array of items.                                                         *)
(***************************************************************************)
\* the most items of the attributes list of a TRAPI edge
MaxAttributes == 2

\* the API names of Situation C
DirectProviders ==
  {"Clinical Risk KP API", "Text Mining Targeted Association API",
   "Multiomics Wellness KP API", "Drug Response KP API",
   "Text Mining Co-occurrence API", "TCGA Mutation Frequency API"}

Attribute(attribute_type_id, value, value_type_id) ==
  [attribute_type_id |-> attribute_type_id, value |-> value, value_type_id |-> value_type_id]

\* the attribute every edge starts with
BTEAggregator ==
  Attribute("biolink:aggregator_knowledge_source",
            <<"infores:translator-biothings-explorer">>, "biolink:InformationResource")

\* whether obj[key] is truthy: the property exists and is not null
Truthy(obj, key) == \E i \in 1..Len(obj) : obj[i].key = key /\ ~obj[i].value.null

\* obj[key] of a property that exists
Property(obj, key) == obj[CHOOSE i \in 1..Len(obj) : obj[i].key = key].value

SituationAllowListFirst(kgEdge) ==
  IF \E api_name \in DirectProviders : api_name \in kgEdge.apis THEN "C"
  ELSE IF Truthy(kgEdge.attributes, "attributes") THEN "A"
  ELSE "B"

\* the branch _createAttributes takes: A for an edge of a TRAPI API, C for an
\* edge of a direct provider, B for any other
Situation(kgEdge) ==
  IF Truthy(kgEdge.attributes, "attributes") THEN "A"
  ELSE IF \E api_name \in DirectProviders : api_name \in kgEdge.apis THEN "C"
  ELSE "B"

\* for (const key in kgEdge.attributes): one attribute per property
EdgeAttributes(kgEdge) ==
  [i \in 1..Len(kgEdge.attributes) |->
     Attribute(kgEdge.attributes[i].key, kgEdge.attributes[i].value,
               "bts:" \o kgEdge.attributes[i].key)]

Publications(kgEdge) ==
  Attribute("publications", kgEdge.publications, "biolink:publication")

\* _createAttributes
_createAttributes(kgEdge) ==
  CASE Situation(kgEdge) = "A" ->
         <<BTEAggregator>> \o Property(kgEdge.attributes, "attributes").items
    [] Situation(kgEdge) = "C" ->
         <<BTEAggregator,
           Attribute("biolink:supporting_data_source", kgEdge.sources,
                     "biolink:InformationResource"),
           Attribute("biolink:primary_knowledge_source", kgEdge.inforesCuries,
                     "biolink:InformationResource"),
           Publications(kgEdge)>> \o EdgeAttributes(kgEdge)
    [] Situation(kgEdge) = "B" ->
         <<BTEAggregator,
           Attribute("biolink:primary_knowledge_source", kgEdge.sources,
                     "biolink:InformationResource"),
           Attribute("biolink:aggregator_knowledge_source", kgEdge.inforesCuries,
                     "biolink:InformationResource"),
           Publications(kgEdge)>> \o EdgeAttributes(kgEdge)

\* the attributes a TRAPI API sends with an edge
TrapiAttributes ==
  {Attribute("biolink:primary_knowledge_source", <<"infores:ctd">>, "biolink:InformationResource"),
   Attribute("biolink:supporting_data_source", <<"infores:drugbank">>, "biolink:InformationResource")}

\* the values kgEdge.attributes can have: with or without the property
\* attributes (null, or a list), and with or without another property
KGEdgeAttributes ==
  LET relation == [key |-> "relation", value |-> [null |-> FALSE, items |-> <<"treats">>]]
      trapi == {[key |-> "attributes", value |-> [null |-> TRUE, items |-> <<>>]]}
                 \cup {[key |-> "attributes", value |-> [null |-> FALSE, items |-> list]] :
                         list \in SeqsUpTo(TrapiAttributes, MaxAttributes)}
  IN {<<>>, <<relation>>} \cup {<<t>> : t \in trapi} \cup {<<relation, t>> : t \in trapi}

KGEdges ==
  {[apis |-> apis, sources |-> sources, inforesCuries |-> inforesCuries,
    publications |-> publications, attributes |-> attributes] :
     apis \in SUBSET {"Clinical Risk KP API", "TCGA Mutation Frequency API", "MyGene.info API"},
     sources \in {<<>>, <<"infores:s1">>, <<"infores:s1", "infores:s2">>},
     inforesCuries \in {<<>>, <<"infores:api">>},
     publications \in {<<>>, <<"PMID:1">>},
     attributes \in KGEdgeAttributes}

CreateAttributesInit ==
  /\ KeyIdle /\ CacheIdle /\ QueryIdle /\ ResultsIdle
  /\ \E kgEdge \in KGEdges : call = [arg |-> kgEdge, outs |-> <<>>]

\* _createEdge calls _createAttributes for the edge
CreateAttributes ==
  /\ call.outs = <<>>
  /\ call' = [call EXCEPT !.outs = <<_createAttributes(call.arg)>>]
  /\ UNCHANGED <<keyVars, cacheVars, queryVars, resultVars>>

CreateAttributesNext == CreateAttributes

SpecCreateAttributes == CreateAttributesInit /\ [][CreateAttributesNext]_vars

\* the edge carries an attributes list
CarriesAttributesList(kgEdge) ==
  \E i \in 1..Len(kgEdge.attributes) :
    kgEdge.attributes[i].key = "attributes" /\ ~kgEdge.attributes[i].value.null

\* the list the edge carries
CarriedList(kgEdge) ==
  kgEdge.attributes[CHOOSE i \in 1..Len(kgEdge.attributes) :
                      kgEdge.attributes[i].key = "attributes"].value.items

\* the values of the attributes of a type among the given ones
ValuesOfType(attributes, type) ==
  {attributes[i].value : i \in {k \in 1..Len(attributes) : attributes[k].attribute_type_id = type}}

\* C24: the attributes of an emitted edge start with the aggregator
\* 'infores:translator-biothings-explorer'; then an edge that carries an
\* attributes list has that list and nothing else; else an edge with an API
\* of the allow-list has supporting_data_source = its sources and
\* primary_knowledge_source = its infores curies (and no further aggregator);
\* else it has primary_knowledge_source = its sources and
\* aggregator_knowledge_source = its infores curies (and no supporting source)
C24_AttributeShapes ==
  Len(call.outs) = 1 =>
    LET kgEdge == call.arg
        attributes == call.outs[1]
        rest == Tail(attributes)
    IN /\ attributes[1].attribute_type_id = "biolink:aggregator_knowledge_source"
       /\ attributes[1].value = <<"infores:translator-biothings-explorer">>
       /\ IF CarriesAttributesList(kgEdge) THEN rest = CarriedList(kgEdge)
          ELSE IF kgEdge.apis \cap DirectProviders # {}
          THEN /\ rest[1] = Attribute("biolink:supporting_data_source", kgEdge.sources,
                                      "biolink:InformationResource")
               /\ rest[2] = Attribute("biolink:primary_knowledge_source",
                                      kgEdge.inforesCuries, "biolink:InformationResource")
               /\ ValuesOfType(rest, "biolink:aggregator_knowledge_source") = {}
               /\ ValuesOfType(rest, "biolink:primary_knowledge_source") = {kgEdge.inforesCuries}
          ELSE /\ rest[1] = Attribute("biolink:primary_knowledge_source", kgEdge.sources,
                                      "biolink:InformationResource")
               /\ rest[2] = Attribute("biolink:aggregator_knowledge_source",
                                      kgEdge.inforesCuries, "biolink:InformationResource")
               /\ ValuesOfType(rest, "biolink:supporting_data_source") = {}
               /\ ValuesOfType(rest, "biolink:primary_knowledge_source") = {kgEdge.sources}

\* the attributes were created for an edge that carries an attributes list and
\* has an API of the allow-list as well
C24_Witness ==
  /\ Len(call.outs) = 1
  /\ CarriesAttributesList(call.arg)
  /\ Len(CarriedList(call.arg)) = MaxAttributes
  /\ call.arg.apis \cap DirectProviders # {}
  /\ call.arg.sources # <<>>


(***************************************************************************)
(* Completion of the cache lookup.                                         *)
(***************************************************************************)
\* the lookup of p is where no step of it follows: the decode stream was
\* given a chunk and never called back, or an error was raised that nothing
\* handles; the promise of the edge is never resolved
LookupStuck(p) == q[p].op = "lookup" /\ q[p].pc \in {"r_hung", "r_uncaught"}

\* C25: every cache lookup completes, whatever chunks are stored: the decode
\* stream consumes all chunks and reaches its end, so that no lookup is ever
\* left at a point from which categorizeEdges cannot return
C25_LookupCompletes == \A p \in Procs : ~LookupStuck(p)


(***************************************************************************)
(* C31: the support pre-check and the plan of query().                     *)
(***************************************************************************)
\* the fields of the plan that the pre-check writes on the edges it works on
PlanOf(t) ==
  [e \in DOMAIN t.qXEdges |->
     <<t.qXEdges[e].executed, t.qXEdges[e].reverse,
       t.qXEdges[e].subject_entity_count, t.qXEdges[e].object_entity_count>>]

\* C31: _edgesSupported leaves the execution edges of query() as they were:
\* after it returns every edge has the executed flag, the reverse flag and the
\* endpoint entity counts it had before, and the execution loop starts with all
\* edges unexecuted.
C31_PreCheckLeavesPlan ==
  /\ [][tq.pc = "processed" => PlanOf(tq') = PlanOf(tq)]_vars
  /\ []((tq.pc = "loop" /\ tq.invoked = <<>>) => EdgesNotExecuted(tq) = DOMAIN tq.qXEdges)

\* the loop is about to start on MaxQEdges edges after the pre-check visited
\* them all
C31_Witness ==
  /\ tq.pc = "loop"
  /\ tq.invoked = <<>>
  /\ Cardinality(DOMAIN tq.qXEdges) = MaxQEdges
  /\ \A e \in DOMAIN tq.qXEdges : tq.qXEdges[e] = NewQXEdge


(***************************************************************************)
(* C32: a dry run of query().                                              *)
(***************************************************************************)
\* the logs of _edgesSupported
PlanningLogTypes == {"dryrun", "planned", "plannedQueries", "metaXEdge", "noMetaKGEdges"}

EdgesDone(p) ==
  IF q[p].pc = "idle" THEN q[p].qXEdges ELSE SubSeq(q[p].qXEdges, 1, q[p].i - 1)

\* the number of cacheHit logs for the edge
CacheHitLogs(p, id) ==
  Cardinality({j \in 1..Len(q[p].logs) : q[p].logs[j] = CacheHitLog(id)})

\* the edges of the records in cachedRecords, in the order of the records
RecordEdges(p) == Unique([j \in 1..Len(q[p].cachedRecords) |-> q[p].cachedRecords[j].qEdge])

HitEdge(p, id) == CacheHitLogs(p, id) = 1
MissEdge(p, id) == CacheHitLogs(p, id) = 0

\* C33: with caching enabled categorizeEdges partitions the edges it has dealt
\* with: an edge either has exactly one cacheHit log, its records if any are
\* in cachedRecords and it is not in nonCachedQXEdges, or it has no cacheHit
\* log and no cached record and is in nonCachedQXEdges; nonCachedQXEdges is the
\* input without the hit edges, in the order of the input, and an edge not yet
\* dealt with is in neither group.
C33_CategorizePartitions ==
  \A p \in Procs :
    (q[p].op = "lookup" /\ q[p].cacheEnabled) =>
      LET done == EdgesDone(p)
          IsMiss(id) == MissEdge(p, id)
      IN /\ \A id \in Range(done) : HitEdge(p, id) \/ MissEdge(p, id)
         /\ q[p].nonCachedQXEdges = SelectSeq(done, IsMiss)
         /\ \A id \in Range(RecordEdges(p)) : id \in Range(done) /\ HitEdge(p, id)
         /\ \A a, b \in 1..Len(q[p].cachedRecords) :
              (a < b /\ q[p].cachedRecords[a].qEdge # q[p].cachedRecords[b].qEdge) =>
                \E x, y \in 1..Len(done) :
                  /\ x < y
                  /\ done[x] = q[p].cachedRecords[a].qEdge
                  /\ done[y] = q[p].cachedRecords[b].qEdge
         /\ \A id \in Range(q[p].qXEdges) \ Range(done) :
              CacheHitLogs(p, id) = 0 /\ id \notin Range(q[p].nonCachedQXEdges)

\* a lookup of two edges has returned with a hit for the first, whose records
\* it returns, and the second as not cached
C33_Witness ==
  \E p \in Procs :
    /\ q[p].op = "lookup" /\ q[p].cacheEnabled /\ q[p].pc = "idle"
    /\ q[p].qXEdges = <<"e0", "e1">>
    /\ HitEdge(p, "e0") /\ Len(q[p].cachedRecords) > 0
    /\ q[p].nonCachedQXEdges = <<"e1">>


(***************************************************************************)
(* C34: the progress messages of cacheEdges.                               *)
(***************************************************************************)
\* the HSET commands query p issued that the backend has not executed
PendingOf(p) == {c \in pending : c.proc = p}

\* what a call of cacheEdges has posted, by the state of the cache and the port
MessagesInOrder(p) ==
  IF ~env.parentPort THEN q[p].posted = <<>>
  ELSE IF ~q[p].cacheEnabled THEN q[p].posted = <<"cacheDone">>
  ELSE /\ q[p].posted \in {<<"cacheInProgress">>, <<"cacheInProgress", "cacheDone">>}
       /\ q[p].pc = "idle" <=> Len(q[p].posted) = 2

\* C34: a call of cacheEdges with caching enabled and a parent port posts
\* cacheInProgress once and then, when it ends, cacheDone once; with caching
\* disabled it posts cacheDone only; and when cacheDone has been posted no
\* chunk write of the call is outstanding and the call holds no lock.
C34_ProgressMessages ==
  \A p \in Procs :
    q[p].op = "store" =>
      /\ MessagesInOrder(p)
      /\ "cacheDone" \in Range(q[p].posted) => PendingOf(p) = {} /\ LocksHeld(p) = {}


(***************************************************************************)
(* C35: locks under concurrent queries.                                    *)
(***************************************************************************)
\* the steps of a call from lock() to unlock()
LockPath(p) ==
  \/ AcquireReadLock(p) \/ Hgetall(p) \/ ReadUnlock(p)
  \/ AcquireWriteLock(p) \/ Del(p) \/ WriteStream(p) \/ Expire(p) \/ WriteUnlock(p)

\* between lock() and unlock() every continuation that is ready runs and every
\* command the backend accepted is answered, and a lock() that waits is served
\* once the lock stays free
SpecCacheFair == SpecCache /\ \A p \in Procs : WF_vars(LockPath(p))

\* the call of p waits in lock()
WaitsForLock(p) == q[p].pc \in {"r_lock", "w_lock"}

\* C35: a call of categorizeEdges or cacheEdges holds at most one key lock at
\* any time, and a call that requests a lock eventually holds it, whatever the
\* other query does with the same keys.
C35_LocksDoNotDeadlock ==
  /\ [](\A p \in Procs : Cardinality(LocksHeld(p)) <= 1)
  /\ \A p \in Procs : WaitsForLock(p) ~> (q[p].pc \in LockedPositions)

\* a call that has held and released one lock waits for the lock of its next
\* key, which the other query holds
C35_Witness ==
  \E p1, p2 \in Procs :
    /\ p1 # p2
    /\ WaitsForLock(p1) /\ q[p1].acq > 0
    /\ lock[CurrentKey(p1)] = p2


(***************************************************************************)
(* C36: a rewritten key holds the chunks of one write.                     *)
(***************************************************************************)
\* C36: when no backend command has failed and no write of a key is under
\* way (its lock is free and none of its chunk writes is outstanding), an
\* entry under the key holds exactly the chunk fields of one write: no chunk
\* of an earlier write is left beside those of a later one.
C36_RewriteReplacesEntry ==
  \A k \in Keys :
    (failures = 0 /\ lock[k] = "free" /\ PendingOn(k) = {} /\ store[k] # <<>>)
      => \E L \in WrittenLists(k) : Range(store[k]) = Range(WrittenEntry(L))

=============================================================================
